---- MODULE Spec2Model ----
(***************************************************************************)
(* A model of the GenAI roadmap agent (src/roadmap_agent.py): the model    *)
(* client, the output normaliser, the extraction / classification /        *)
(* planning stages with their trace variants, the formatter and the        *)
(* orchestrator generate_roadmap.                                          *)
(*                                                                         *)
(* Text is a sequence of one-character strings, so that strip, startswith, *)
(* the fence regular expression, json.loads and json.dumps are computed    *)
(* character by character as the code computes them.  Python values are    *)
(* tagged records: None, bool, int, float constants, str, list, dict.      *)
(***************************************************************************)
EXTENDS Integers, Sequences, FiniteSets, TLC

\* ------------------------------------------------------------------ text

Letters ==
    {"a", "b", "c", "d", "e", "f", "g", "h", "i", "j", "k", "l", "m",
     "n", "o", "p", "q", "r", "s", "t", "u", "v", "w", "x", "y", "z",
     "A", "B", "C", "D", "E", "F", "G", "H", "I", "J", "K", "L", "M",
     "N", "O", "P", "Q", "R", "S", "T", "U", "V", "W", "X", "Y", "Z"}

Digits == {"0", "1", "2", "3", "4", "5", "6", "7", "8", "9"}

\* The characters str.strip() removes (those of them the texts here use).
Whitespace == {" ", "\n", "\t", "\r"}

\* The characters json.loads skips between tokens.
JsonWhitespace == {" ", "\t", "\n", "\r"}

\* The characters a JSON string may not hold unescaped (strict mode).
ControlChars == {"\n", "\t", "\r"}

\* The first index from i on, going up, at which s holds no character of cs:
\* Len(s) + 1 when there is none.
RECURSIVE ScanWhile(_, _, _)
ScanWhile(s, i, cs) ==
    IF i > Len(s) \/ s[i] \notin cs THEN i ELSE ScanWhile(s, i + 1, cs)

\* The first index from i on, going down, at which s holds no character of
\* cs: 0 when there is none.
RECURSIVE ScanBack(_, _, _)
ScanBack(s, i, cs) ==
    IF i < 1 \/ s[i] \notin cs THEN i ELSE ScanBack(s, i - 1, cs)

\* The first index from i on at which s holds a character of cs: Len(s) + 1
\* when there is none.
RECURSIVE ScanUntil(_, _, _)
ScanUntil(s, i, cs) ==
    IF i > Len(s) \/ s[i] \in cs THEN i ELSE ScanUntil(s, i + 1, cs)

\* str.strip()
Strip(s) == SubSeq(s, ScanWhile(s, 1, Whitespace), ScanBack(s, Len(s), Whitespace))

\* s[i:i+len(p)] == p
MatchAt(s, i, p) ==
    /\ i >= 1
    /\ i + Len(p) - 1 <= Len(s)
    /\ \A k \in 1..Len(p) : s[i + k - 1] = p[k]

\* str.startswith
StartsWith(s, p) == MatchAt(s, 1, p)

\* str.endswith
EndsWith(s, p) == MatchAt(s, Len(s) - Len(p) + 1, p)

\* s[i:]
From(s, i) == SubSeq(s, i, Len(s))

\* The grave accent U+0060, which a string of this language cannot hold: the
\* one text element that is not written as the character itself.
Backtick == "GRAVE"

Fence == <<Backtick, Backtick, Backtick>>

\* The length of the match of the fence pattern (start of text, three
\* backticks, [a-zA-Z]*, an optional line feed) at the start of s, which
\* starts with the fence: the fence, the longest run of letters, then one
\* line feed if there is one.
FenceMatchLen(s) ==
    LET after == ScanWhile(s, 4, Letters)
    IN  IF after <= Len(s) /\ s[after] = "\n" THEN after ELSE after - 1

\* re.sub of the fence pattern by the empty text: the pattern is anchored,
\* so only the match at the start is removed.
SubFence(s) == From(s, FenceMatchLen(s) + 1)

\* clean_json_output
clean_json_output(output) ==
    LET o1 == Strip(output)
        o2 == IF StartsWith(o1, Fence)
              THEN LET o3 == SubFence(o1)
                   IN  IF EndsWith(o3, Fence)
                       THEN SubSeq(o3, 1, Len(o3) - 3)
                       ELSE o3
              ELSE o1
    IN  Strip(o2)

\* ------------------------------------------------------- Python values

PyNone == [t |-> "none"]

PyBool(b) == [t |-> "bool", b |-> b]

PyInt(n) == [t |-> "int", n |-> n]

\* The floats nan, inf and -inf: c is the name json gives the constant.
PyFloat(c) == [t |-> "float", c |-> c]

PyStr(s) == [t |-> "str", s |-> s]

PyList(a) == [t |-> "list", a |-> a]

\* A dict is its items in insertion order, keys (texts) unique.
PyDict(o) == [t |-> "dict", o |-> o]

IsDict(v) == v.t = "dict"

IsList(v) == v.t = "list"

IsStr(v) == v.t = "str"

HasKey(d, k) == \E i \in 1..Len(d.o) : d.o[i][1] = k

Lookup(d, k) == d.o[CHOOSE i \in 1..Len(d.o) : d.o[i][1] = k][2]

\* d[k] = v on the items of a dict: a present key keeps its place.
DictSet(o, k, v) ==
    IF \E i \in 1..Len(o) : o[i][1] = k
    THEN [i \in 1..Len(o) |-> IF o[i][1] = k THEN <<k, v>> ELSE o[i]]
    ELSE Append(o, <<k, v>>)

\* ------------------------------------------------------------ json.loads

ParseFail == [ok |-> FALSE]

Parsed(v, i) == [ok |-> TRUE, v |-> v, i |-> i]

\* The end of the whitespace that starts at index i.
SkipWs(s, i) == ScanWhile(s, i, JsonWhitespace)

DigitChars == <<"0", "1", "2", "3", "4", "5", "6", "7", "8", "9">>

DigitVal(c) == (CHOOSE k \in 1..10 : DigitChars[k] = c) - 1

RECURSIVE DigitsValue(_)
DigitsValue(ds) ==
    IF ds = <<>> THEN 0
    ELSE 10 * DigitsValue(SubSeq(ds, 1, Len(ds) - 1)) + DigitVal(ds[Len(ds)])

\* A string, s[i] being its opening quote: it ends at the next quote, and a
\* control character before that is an error.  (The texts here hold no
\* backslash, so no escape sequence is decoded.)
ParseString(s, i) ==
    LET j == ScanUntil(s, i + 1, {"\""} \cup ControlChars)
    IN  IF j <= Len(s) /\ s[j] = "\""
        THEN Parsed(PyStr(SubSeq(s, i + 1, j - 1)), j + 1)
        ELSE ParseFail

\* An integer, matched as -?(0|[1-9][0-9]*), s[i] starting one.  (The texts
\* here hold no fraction and no exponent.)
ParseInt(s, i) ==
    LET neg   == s[i] = "-"
        d0    == IF neg THEN i + 1 ELSE i
        after == IF s[d0] = "0" THEN d0 + 1 ELSE ScanWhile(s, d0, Digits)
        n     == DigitsValue(SubSeq(s, d0, after - 1))
    IN  Parsed(PyInt(IF neg THEN 0 - n ELSE n), after)

RECURSIVE ParseValue(_, _)
RECURSIVE ParseArrayItems(_, _, _)
RECURSIVE ParseObjectItems(_, _, _)

\* The items of an array from index i, where a value must start.
ParseArrayItems(s, i, acc) ==
    LET r == ParseValue(s, i)
    IN  IF ~r.ok THEN ParseFail
        ELSE LET j == SkipWs(s, r.i)
             IN  IF j > Len(s) THEN ParseFail
                 ELSE IF s[j] = "]" THEN Parsed(PyList(Append(acc, r.v)), j + 1)
                 ELSE IF s[j] = ","
                      THEN ParseArrayItems(s, SkipWs(s, j + 1), Append(acc, r.v))
                 ELSE ParseFail

\* An array, i being the index after its opening bracket.
ParseArray(s, i) ==
    LET j == SkipWs(s, i)
    IN  IF j <= Len(s) /\ s[j] = "]" THEN Parsed(PyList(<<>>), j + 1)
        ELSE ParseArrayItems(s, j, <<>>)

\* The items of an object from index i, where s[i] is the quote that opens
\* a key.  A key met again replaces its value.
ParseObjectItems(s, i, acc) ==
    LET k == ParseString(s, i)
    IN  IF ~k.ok THEN ParseFail
        ELSE LET c == SkipWs(s, k.i)
             IN  IF c > Len(s) \/ s[c] # ":" THEN ParseFail
                 ELSE LET r == ParseValue(s, SkipWs(s, c + 1))
                      IN  IF ~r.ok THEN ParseFail
                          ELSE LET j    == SkipWs(s, r.i)
                                   acc2 == DictSet(acc, k.v.s, r.v)
                               IN  IF j > Len(s) THEN ParseFail
                                   ELSE IF s[j] = "}" THEN Parsed(PyDict(acc2), j + 1)
                                   ELSE IF s[j] = ","
                                        THEN LET n == SkipWs(s, j + 1)
                                             IN  IF n > Len(s) \/ s[n] # "\""
                                                 THEN ParseFail
                                                 ELSE ParseObjectItems(s, n, acc2)
                                   ELSE ParseFail

\* An object, i being the index after its opening brace.
ParseObject(s, i) ==
    LET j == SkipWs(s, i)
    IN  IF j <= Len(s) /\ s[j] = "}" THEN Parsed(PyDict(<<>>), j + 1)
        ELSE IF j > Len(s) \/ s[j] # "\"" THEN ParseFail
        ELSE ParseObjectItems(s, j, <<>>)

T_null == <<"n", "u", "l", "l">>

T_true == <<"t", "r", "u", "e">>

T_false == <<"f", "a", "l", "s", "e">>

T_NaN == <<"N", "a", "N">>

T_Infinity == <<"I", "n", "f", "i", "n", "i", "t", "y">>

T_NegInfinity == <<"-", "I", "n", "f", "i", "n", "i", "t", "y">>

\* One value starting at index i (the scanner of the json module, which
\* also takes the names NaN, Infinity and -Infinity).
ParseValue(s, i) ==
    IF i > Len(s) THEN ParseFail
    ELSE IF s[i] = "\"" THEN ParseString(s, i)
    ELSE IF s[i] = "{" THEN ParseObject(s, i + 1)
    ELSE IF s[i] = "[" THEN ParseArray(s, i + 1)
    ELSE IF MatchAt(s, i, T_null) THEN Parsed(PyNone, i + 4)
    ELSE IF MatchAt(s, i, T_true) THEN Parsed(PyBool(TRUE), i + 4)
    ELSE IF MatchAt(s, i, T_false) THEN Parsed(PyBool(FALSE), i + 5)
    ELSE IF s[i] \in Digits \/ (s[i] = "-" /\ i < Len(s) /\ s[i + 1] \in Digits)
         THEN ParseInt(s, i)
    ELSE IF MatchAt(s, i, T_NaN) THEN Parsed(PyFloat(T_NaN), i + 3)
    ELSE IF MatchAt(s, i, T_Infinity) THEN Parsed(PyFloat(T_Infinity), i + 8)
    ELSE IF MatchAt(s, i, T_NegInfinity) THEN Parsed(PyFloat(T_NegInfinity), i + 9)
    ELSE ParseFail

\* json.loads: one value with whitespace around it and nothing else; ok is
\* FALSE where json.loads raises.
json_loads(s) ==
    LET r == ParseValue(s, SkipWs(s, 1))
    IN  IF r.ok /\ SkipWs(s, r.i) = Len(s) + 1
        THEN [ok |-> TRUE, v |-> r.v]
        ELSE ParseFail

\* ------------------------------------------------------------ json.dumps

RECURSIVE IntText(_)
IntText(n) ==
    IF n < 0 THEN <<"-">> \o IntText(0 - n)
    ELSE IF n < 10 THEN <<DigitChars[n + 1]>>
    ELSE IntText(n \div 10) \o <<DigitChars[(n % 10) + 1]>>

Spaces(n) == [i \in 1..n |-> " "]

\* A line feed and the indentation of depth n.
NewlineIndent(n) == <<"\n">> \o Spaces(n)

RECURSIVE json_dumps_at(_, _)
RECURSIVE DumpListItems(_, _, _)
RECURSIVE DumpDictItems(_, _, _)

\* The items of a list from the k-th on, each on its own line at depth n.
DumpListItems(a, k, n) ==
    IF k > Len(a) THEN <<>>
    ELSE (IF k > 1 THEN <<",">> ELSE <<>>) \o NewlineIndent(n)
         \o json_dumps_at(a[k], n) \o DumpListItems(a, k + 1, n)

\* The items of a dict from the k-th on, each on its own line at depth n.
DumpDictItems(o, k, n) ==
    IF k > Len(o) THEN <<>>
    ELSE (IF k > 1 THEN <<",">> ELSE <<>>) \o NewlineIndent(n)
         \o <<"\"">> \o o[k][1] \o <<"\"", ":", " ">>
         \o json_dumps_at(o[k][2], n) \o DumpDictItems(o, k + 1, n)

\* json.dumps(v, indent=2) of a value nested at indentation n.  (The strings
\* here hold nothing that json.dumps escapes.)
json_dumps_at(v, n) ==
    CASE v.t = "none"  -> T_null
      [] v.t = "bool"  -> IF v.b THEN T_true ELSE T_false
      [] v.t = "int"   -> IntText(v.n)
      [] v.t = "float" -> v.c
      [] v.t = "str"   -> <<"\"">> \o v.s \o <<"\"">>
      [] v.t = "list"  -> IF v.a = <<>> THEN <<"[", "]">>
                          ELSE <<"[">> \o DumpListItems(v.a, 1, n + 2)
                               \o NewlineIndent(n) \o <<"]">>
      [] v.t = "dict"  -> IF v.o = <<>> THEN <<"{", "}">>
                          ELSE <<"{">> \o DumpDictItems(v.o, 1, n + 2)
                               \o NewlineIndent(n) \o <<"}">>

\* json.dumps(v, indent=2)
json_dumps(v) == json_dumps_at(v, 0)

\* ------------------------------------------------------------------ str()

T_None == <<"N", "o", "n", "e">>

T_True == <<"T", "r", "u", "e">>

T_False == <<"F", "a", "l", "s", "e">>

RECURSIVE py_repr(_)
RECURSIVE ReprListItems(_, _)
RECURSIVE ReprDictItems(_, _)

ReprListItems(a, k) ==
    IF k > Len(a) THEN <<>>
    ELSE (IF k > 1 THEN <<",", " ">> ELSE <<>>) \o py_repr(a[k])
         \o ReprListItems(a, k + 1)

ReprDictItems(o, k) ==
    IF k > Len(o) THEN <<>>
    ELSE (IF k > 1 THEN <<",", " ">> ELSE <<>>) \o <<"'">> \o o[k][1]
         \o <<"'", ":", " ">> \o py_repr(o[k][2]) \o ReprDictItems(o, k + 1)

\* repr(v).  (The strings here hold no quote, so a str is shown in single
\* quotes.)
py_repr(v) ==
    CASE v.t = "none"  -> T_None
      [] v.t = "bool"  -> IF v.b THEN T_True ELSE T_False
      [] v.t = "int"   -> IntText(v.n)
      [] v.t = "float" -> IF v.c = T_NaN THEN <<"n", "a", "n">>
                          ELSE IF v.c = T_Infinity THEN <<"i", "n", "f">>
                          ELSE <<"-", "i", "n", "f">>
      [] v.t = "str"   -> <<"'">> \o v.s \o <<"'">>
      [] v.t = "list"  -> <<"[">> \o ReprListItems(v.a, 1) \o <<"]">>
      [] v.t = "dict"  -> <<"{">> \o ReprDictItems(v.o, 1) \o <<"}">>

\* str(v), which is what an f-string puts in place of {v}.
py_str(v) == IF v.t = "str" THEN v.s ELSE py_repr(v)

\* ------------------------------------------------- the keys the code reads

K_persona ==
    <<"p", "e", "r", "s", "o", "n", "a">>

K_justification ==
    <<"j", "u", "s", "t", "i", "f", "i", "c", "a", "t", "i", "o", "n">>

K_domain ==
    <<"d", "o", "m", "a", "i", "n">>

K_goals ==
    <<"g", "o", "a", "l", "s">>

K_weekly_availability_hours ==
    <<"w", "e", "e", "k", "l", "y", "_", "a", "v", "a", "i", "l", "a", "b",
    "i", "l", "i", "t", "y", "_", "h", "o", "u", "r", "s">>

K_duration_days ==
    <<"d", "u", "r", "a", "t", "i", "o", "n", "_", "d", "a", "y", "s">>

K_levels ==
    <<"l", "e", "v", "e", "l", "s">>

K_total_estimated_hours ==
    <<"t", "o", "t", "a", "l", "_", "e", "s", "t", "i", "m", "a", "t", "e",
    "d", "_", "h", "o", "u", "r", "s">>

K_level ==
    <<"l", "e", "v", "e", "l">>

K_title ==
    <<"t", "i", "t", "l", "e">>

K_estimated_hours ==
    <<"e", "s", "t", "i", "m", "a", "t", "e", "d", "_", "h", "o", "u", "r",
    "s">>

K_topics ==
    <<"t", "o", "p", "i", "c", "s">>

K_topic ==
    <<"t", "o", "p", "i", "c">>

K_activity ==
    <<"a", "c", "t", "i", "v", "i", "t", "y">>

K_roadmap ==
    <<"r", "o", "a", "d", "m", "a", "p">>

K_user_profile_summary ==
    <<"u", "s", "e", "r", "_", "p", "r", "o", "f", "i", "l", "e", "_", "s",
    "u", "m", "m", "a", "r", "y">>

\* ------------------------------------ JSON texts and the values they encode

\* A user profile.
X_profile ==
    <<"{", "\"", "d", "o", "m", "a", "i", "n", "\"", ":", " ", "\"", "m",
    "l", "\"", ",", " ", "\"", "g", "o", "a", "l", "s", "\"", ":", " ", "[",
    "\"", "l", "l", "m", "\"", "]", ",", " ", "\"", "w", "e", "e", "k", "l",
    "y", "_", "a", "v", "a", "i", "l", "a", "b", "i", "l", "i", "t", "y",
    "_", "h", "o", "u", "r", "s", "\"", ":", " ", "8", "}">>

V_profile ==
    PyDict(<<<<<<"d", "o", "m", "a", "i", "n">>, PyStr(<<"m", "l">>)>>,
    <<<<"g", "o", "a", "l", "s">>, PyList(<<PyStr(<<"l", "l", "m">>)>>)>>,
    <<<<"w", "e", "e", "k", "l", "y", "_", "a", "v", "a", "i", "l", "a", "b",
    "i", "l", "i", "t", "y", "_", "h", "o", "u", "r", "s">>, PyInt(8)>>>>)

\* A profile of one field.
X_profile_short ==
    <<"{", "\"", "d", "o", "m", "a", "i", "n", "\"", ":", " ", "\"", "m",
    "l", "\"", "}">>

V_profile_short ==
    PyDict(<<<<<<"d", "o", "m", "a", "i", "n">>, PyStr(<<"m", "l">>)>>>>)

\* An empty array.
X_array ==
    <<"[", "]">>

V_array ==
    PyList(<<>>)

\* The null value.
X_null ==
    <<"n", "u", "l", "l">>

V_null ==
    PyNone

\* A persona with its justification.
X_persona ==
    <<"{", "\"", "p", "e", "r", "s", "o", "n", "a", "\"", ":", " ", "\"",
    "C", "o", "l", "l", "e", "g", "e", " ", "s", "t", "u", "d", "e", "n",
    "t", "\"", ",", " ", "\"", "j", "u", "s", "t", "i", "f", "i", "c", "a",
    "t", "i", "o", "n", "\"", ":", " ", "\"", "n", "e", "w", "\"", "}">>

V_persona ==
    PyDict(<<<<<<"p", "e", "r", "s", "o", "n", "a">>, PyStr(<<"C", "o", "l",
    "l", "e", "g", "e", " ", "s", "t", "u", "d", "e", "n", "t">>)>>, <<<<"j",
    "u", "s", "t", "i", "f", "i", "c", "a", "t", "i", "o", "n">>,
    PyStr(<<"n", "e", "w">>)>>>>)

\* A persona that is a number, with no justification.
X_persona_int ==
    <<"{", "\"", "p", "e", "r", "s", "o", "n", "a", "\"", ":", " ", "5",
    "}">>

V_persona_int ==
    PyDict(<<<<<<"p", "e", "r", "s", "o", "n", "a">>, PyInt(5)>>>>)

\* A list of one topic.
X_topics ==
    <<"[", "{", "\"", "t", "o", "p", "i", "c", "\"", ":", " ", "\"", "r",
    "a", "g", "\"", ",", " ", "\"", "j", "u", "s", "t", "i", "f", "i", "c",
    "a", "t", "i", "o", "n", "\"", ":", " ", "\"", "c", "o", "r", "e", "\"",
    "}", "]">>

V_topics ==
    PyList(<<PyDict(<<<<<<"t", "o", "p", "i", "c">>, PyStr(<<"r", "a",
    "g">>)>>, <<<<"j", "u", "s", "t", "i", "f", "i", "c", "a", "t", "i", "o",
    "n">>, PyStr(<<"c", "o", "r", "e">>)>>>>)>>)

\* An empty object.
X_object ==
    <<"{", "}">>

V_object ==
    PyDict(<<>>)

\* A structure of 21 days with one level of its own.
X_structure ==
    <<"{", "\"", "d", "u", "r", "a", "t", "i", "o", "n", "_", "d", "a", "y",
    "s", "\"", ":", " ", "2", "1", ",", " ", "\"", "l", "e", "v", "e", "l",
    "s", "\"", ":", " ", "[", "{", "\"", "l", "e", "v", "e", "l", "\"", ":",
    " ", "9", ",", " ", "\"", "t", "i", "t", "l", "e", "\"", ":", " ", "\"",
    "P", "l", "a", "n", "\"", ",", " ", "\"", "t", "o", "p", "i", "c", "s",
    "\"", ":", " ", "[", "\"", "r", "a", "g", "\"", "]", "}", "]", "}">>

V_structure ==
    PyDict(<<<<<<"d", "u", "r", "a", "t", "i", "o", "n", "_", "d", "a", "y",
    "s">>, PyInt(21)>>, <<<<"l", "e", "v", "e", "l", "s">>,
    PyList(<<PyDict(<<<<<<"l", "e", "v", "e", "l">>, PyInt(9)>>, <<<<"t",
    "i", "t", "l", "e">>, PyStr(<<"P", "l", "a", "n">>)>>, <<<<"t", "o", "p",
    "i", "c", "s">>, PyList(<<PyStr(<<"r", "a", "g">>)>>)>>>>)>>)>>>>)

\* A structure whose duration is none of 21, 30, 45.
X_structure_week ==
    <<"{", "\"", "d", "u", "r", "a", "t", "i", "o", "n", "_", "d", "a", "y",
    "s", "\"", ":", " ", "7", "}">>

V_structure_week ==
    PyDict(<<<<<<"d", "u", "r", "a", "t", "i", "o", "n", "_", "d", "a", "y",
    "s">>, PyInt(7)>>>>)

\* Activities of one level with one topic.
X_activities ==
    <<"{", "\"", "l", "e", "v", "e", "l", "s", "\"", ":", " ", "[", "{",
    "\"", "l", "e", "v", "e", "l", "\"", ":", " ", "1", ",", " ", "\"", "t",
    "i", "t", "l", "e", "\"", ":", " ", "\"", "B", "a", "s", "i", "c", "s",
    "\"", ",", " ", "\"", "e", "s", "t", "i", "m", "a", "t", "e", "d", "_",
    "h", "o", "u", "r", "s", "\"", ":", " ", "3", ",", " ", "\"", "t", "o",
    "p", "i", "c", "s", "\"", ":", " ", "[", "{", "\"", "t", "o", "p", "i",
    "c", "\"", ":", " ", "\"", "r", "a", "g", "\"", ",", " ", "\"", "a", "c",
    "t", "i", "v", "i", "t", "y", "\"", ":", " ", "\"", "b", "u", "i", "l",
    "d", "\"", ",", " ", "\"", "e", "s", "t", "i", "m", "a", "t", "e", "d",
    "_", "h", "o", "u", "r", "s", "\"", ":", " ", "3", ",", " ", "\"", "j",
    "u", "s", "t", "i", "f", "i", "c", "a", "t", "i", "o", "n", "\"", ":",
    " ", "\"", "f", "i", "t", "\"", "}", "]", "}", "]", ",", " ", "\"", "t",
    "o", "t", "a", "l", "_", "e", "s", "t", "i", "m", "a", "t", "e", "d",
    "_", "h", "o", "u", "r", "s", "\"", ":", " ", "3", "}">>

V_activities ==
    PyDict(<<<<<<"l", "e", "v", "e", "l", "s">>, PyList(<<PyDict(<<<<<<"l",
    "e", "v", "e", "l">>, PyInt(1)>>, <<<<"t", "i", "t", "l", "e">>,
    PyStr(<<"B", "a", "s", "i", "c", "s">>)>>, <<<<"e", "s", "t", "i", "m",
    "a", "t", "e", "d", "_", "h", "o", "u", "r", "s">>, PyInt(3)>>, <<<<"t",
    "o", "p", "i", "c", "s">>, PyList(<<PyDict(<<<<<<"t", "o", "p", "i",
    "c">>, PyStr(<<"r", "a", "g">>)>>, <<<<"a", "c", "t", "i", "v", "i", "t",
    "y">>, PyStr(<<"b", "u", "i", "l", "d">>)>>, <<<<"e", "s", "t", "i", "m",
    "a", "t", "e", "d", "_", "h", "o", "u", "r", "s">>, PyInt(3)>>, <<<<"j",
    "u", "s", "t", "i", "f", "i", "c", "a", "t", "i", "o", "n">>,
    PyStr(<<"f", "i", "t">>)>>>>)>>)>>>>)>>)>>, <<<<"t", "o", "t", "a", "l",
    "_", "e", "s", "t", "i", "m", "a", "t", "e", "d", "_", "h", "o", "u",
    "r", "s">>, PyInt(3)>>>>)

\* Activities with a total and no levels.
X_activities_total ==
    <<"{", "\"", "t", "o", "t", "a", "l", "_", "e", "s", "t", "i", "m", "a",
    "t", "e", "d", "_", "h", "o", "u", "r", "s", "\"", ":", " ", "5", "}">>

V_activities_total ==
    PyDict(<<<<<<"t", "o", "t", "a", "l", "_", "e", "s", "t", "i", "m", "a",
    "t", "e", "d", "_", "h", "o", "u", "r", "s">>, PyInt(5)>>>>)

\* Activities whose level is a number.
X_activities_bad ==
    <<"{", "\"", "l", "e", "v", "e", "l", "s", "\"", ":", " ", "[", "1", "]",
    "}">>

V_activities_bad ==
    PyDict(<<<<<<"l", "e", "v", "e", "l", "s">>, PyList(<<PyInt(1)>>)>>>>)

\* Activities whose level and topic have no fields.
X_activities_bare ==
    <<"{", "\"", "l", "e", "v", "e", "l", "s", "\"", ":", " ", "[", "{",
    "\"", "t", "o", "p", "i", "c", "s", "\"", ":", " ", "[", "{", "}", "]",
    "}", "]", "}">>

V_activities_bare ==
    PyDict(<<<<<<"l", "e", "v", "e", "l", "s">>, PyList(<<PyDict(<<<<<<"t",
    "o", "p", "i", "c", "s">>, PyList(<<PyDict(<<>>)>>)>>>>)>>)>>>>)

\* ---------------------------------------------------------- model client

\* What the remote endpoint does with one request: it fails (ok is FALSE) or
\* returns a text.  json and value are not read by the program: they record
\* how the text was made, json being TRUE for a well-formed JSON text, bare
\* or in a code fence, and value the value that JSON text encodes.  NaN,
\* Infinity and -Infinity are no JSON texts, though json.loads reads them.
Failure == [ok |-> FALSE, text |-> <<>>, json |-> FALSE, value |-> PyNone]

TextReply(text) == [ok |-> TRUE, text |-> text, json |-> FALSE, value |-> PyNone]

JsonReply(text, value) == [ok |-> TRUE, text |-> text, json |-> TRUE, value |-> value]

\* A code fence: the opening fence with its language tag, the body on its own
\* lines, the closing fence.
Fenced(tag, body) == Fence \o tag \o <<"\n">> \o body \o <<"\n">> \o Fence

\* A prompt is the template it is made from and the texts put into it.
Prompt(template, embeds) == [template |-> template, embeds |-> embeds]

\* GeminiAPI.generate: the stripped text of the response, or the empty text
\* when the remote call raises.
generate(prompt, o) == IF o.ok THEN Strip(o.text) ELSE <<>>

\* One call of the model client, as the call log keeps it.
ModelCall(prompt, o) == [prompt |-> prompt, response |-> generate(prompt, o)]

EmptyStr == PyStr(<<>>)

EmptyDict == PyDict(<<>>)

EmptyList == PyList(<<>>)

\* A local that is not bound yet.
Unbound == [t |-> "unbound"]

\* d.get(k, default) on a dict d
Get(d, k, default) == IF HasKey(d, k) THEN Lookup(d, k) ELSE default

\* bool(v)
Truthy(v) ==
    CASE v.t = "none"  -> FALSE
      [] v.t = "bool"  -> v.b
      [] v.t = "int"   -> v.n # 0
      [] v.t = "float" -> TRUE
      [] v.t = "str"   -> v.s # <<>>
      [] v.t = "list"  -> v.a # <<>>
      [] v.t = "dict"  -> v.o # <<>>

\* ------------------------------------------------------ UserUnderstanding

\* extract_user_data: the parsed response, or {} when parsing raises.
extract_user_data(resume_text, interview_summary_text, goals_text, o) ==
    LET prompt == Prompt("extract",
                         <<resume_text, interview_summary_text, goals_text>>)
        output == generate(prompt, o)
        parsed == json_loads(clean_json_output(output))
    IN  [raised |-> FALSE,
         value  |-> IF parsed.ok THEN parsed.v ELSE EmptyDict,
         calls  |-> <<[prompt |-> prompt, response |-> output]>>]

\* extract_user_data_trace: (user_data, prompt, output)
extract_user_data_trace(resume_text, interview_summary_text, goals_text, o) ==
    LET prompt == Prompt("extract",
                         <<resume_text, interview_summary_text, goals_text>>)
        output == generate(prompt, o)
        parsed == json_loads(clean_json_output(output))
        user_data == IF parsed.ok THEN parsed.v ELSE EmptyDict
    IN  [raised |-> FALSE,
         value  |-> <<user_data, prompt, output>>,
         calls  |-> <<[prompt |-> prompt, response |-> output]>>]

\* ------------------------------------------------------ PersonaClassifier

\* classify_persona: (persona, justification) read from the parsed response;
\* ('', '') when parsing raises or the parsed value has no get.
classify_persona(user_data, o) ==
    LET prompt == Prompt("classify", <<json_dumps(user_data)>>)
        output == generate(prompt, o)
        parsed == json_loads(clean_json_output(output))
    IN  [raised |-> FALSE,
         value  |-> IF parsed.ok /\ IsDict(parsed.v)
                    THEN <<Get(parsed.v, K_persona, EmptyStr),
                           Get(parsed.v, K_justification, EmptyStr)>>
                    ELSE <<EmptyStr, EmptyStr>>,
         calls  |-> <<[prompt |-> prompt, response |-> output]>>]

\* classify_persona_trace: (persona, justification, prompt, output)
classify_persona_trace(user_data, o) ==
    LET prompt == Prompt("classify", <<json_dumps(user_data)>>)
        output == generate(prompt, o)
        parsed == json_loads(clean_json_output(output))
        good   == parsed.ok /\ IsDict(parsed.v)
        persona == IF good THEN Get(parsed.v, K_persona, EmptyStr) ELSE EmptyStr
        justification ==
            IF good THEN Get(parsed.v, K_justification, EmptyStr) ELSE EmptyStr
    IN  [raised |-> FALSE,
         value  |-> <<persona, justification, prompt, output>>,
         calls  |-> <<[prompt |-> prompt, response |-> output]>>]

\* --------------------------------------------------------- RoadmapPlanner

DefaultDuration == 30

\* plan_roadmap, step 1: the prompt that asks for topics.
think_prompt(user_data, persona) ==
    Prompt("think", <<json_dumps(user_data), py_str(persona)>>)

\* ParseTopics with {} where it has [].
ParseTopicsDict(topics_output) ==
    LET parsed == json_loads(clean_json_output(topics_output))
    IN  IF parsed.ok THEN parsed.v ELSE EmptyDict

\* plan_roadmap, step 1: the parsed topics, or [] when parsing raises.
ParseTopics(topics_output) ==
    LET parsed == json_loads(clean_json_output(topics_output))
    IN  IF parsed.ok THEN parsed.v ELSE EmptyList

\* plan_roadmap, step 2: the prompt that asks for the structure.
plan_prompt(topics) == Prompt("plan", <<json_dumps(topics)>>)

\* ParseStructure with a structure of seven days where it has {}.
ParseStructureWeek(structure_output) ==
    LET parsed == json_loads(clean_json_output(structure_output))
    IN  IF parsed.ok THEN parsed.v ELSE V_structure_week

\* plan_roadmap, step 2: the parsed structure, or {} when parsing raises.
ParseStructure(structure_output) ==
    LET parsed == json_loads(clean_json_output(structure_output))
    IN  IF parsed.ok THEN parsed.v ELSE EmptyDict

\* activities_prompt with an empty structure in place of the structure.
activities_prompt_bare(user_data, persona, structure) ==
    Prompt("activities",
           <<json_dumps(user_data), py_str(persona), json_dumps(EmptyDict)>>)

\* plan_roadmap, step 3: the prompt that asks for the activities.
activities_prompt(user_data, persona, structure) ==
    Prompt("activities",
           <<json_dumps(user_data), py_str(persona), json_dumps(structure)>>)

\* plan_roadmap, step 3: the parsed activities, or {} when parsing raises.
ParseActivities(activities_output) ==
    LET parsed == json_loads(clean_json_output(activities_output))
    IN  IF parsed.ok THEN parsed.v ELSE EmptyDict

T_title_prefix == <<"P", "e", "r", "s", "o", "n", "a", "l", "i", "z", "e", "d", " ", "G", "e", "n", "A", "I", " ", "R", "o", "a", "d", "m", "a", "p", " ", "f", "o", "r", " ">>

\* Assemble with the levels read from the structure, not from the activities.
AssembleStructureLevels(user_data, persona, structure, activities) ==
    IF ~IsDict(user_data) \/ ~IsDict(structure) \/ ~IsDict(activities)
    THEN [raised |-> TRUE, value |-> Unbound]
    ELSE [raised |-> FALSE,
          value  |-> PyDict(<<
            <<K_user_profile_summary, PyDict(<<
                <<K_persona, persona>>,
                <<K_domain, Get(user_data, K_domain, EmptyStr)>>,
                <<K_goals, Get(user_data, K_goals, EmptyList)>>,
                <<K_weekly_availability_hours,
                  Get(user_data, K_weekly_availability_hours, PyInt(0))>> >>)>>,
            <<K_roadmap, PyDict(<<
                <<K_title, PyStr(T_title_prefix \o py_str(persona))>>,
                <<K_duration_days,
                  Get(structure, K_duration_days, PyInt(DefaultDuration))>>,
                <<K_total_estimated_hours,
                  Get(activities, K_total_estimated_hours, PyInt(0))>>,
                <<K_levels, Get(structure, K_levels, EmptyList)>> >>)>> >>)]

\* plan_roadmap: the roadmap document.  Each get raises on a value that is
\* not a dict.
Assemble(user_data, persona, structure, activities) ==
    IF ~IsDict(user_data) \/ ~IsDict(structure) \/ ~IsDict(activities)
    THEN [raised |-> TRUE, value |-> Unbound]
    ELSE [raised |-> FALSE,
          value  |-> PyDict(<<
            <<K_user_profile_summary, PyDict(<<
                <<K_persona, persona>>,
                <<K_domain, Get(user_data, K_domain, EmptyStr)>>,
                <<K_goals, Get(user_data, K_goals, EmptyList)>>,
                <<K_weekly_availability_hours,
                  Get(user_data, K_weekly_availability_hours, PyInt(0))>> >>)>>,
            <<K_roadmap, PyDict(<<
                <<K_title, PyStr(T_title_prefix \o py_str(persona))>>,
                <<K_duration_days,
                  Get(structure, K_duration_days, PyInt(DefaultDuration))>>,
                <<K_total_estimated_hours,
                  Get(activities, K_total_estimated_hours, PyInt(0))>>,
                <<K_levels, Get(activities, K_levels, EmptyList)>> >>)>> >>)]

\* plan_roadmap, its last lines: what it returns after its three calls.
PlanReturn(c1, c2, c3, doc) ==
    [raised |-> doc.raised, value |-> doc.value, calls |-> <<c1, c2, c3>>]

\* plan_roadmap from the activities response on.
PlanAssemble(user_data, persona, c1, c2, structure, c3) ==
    PlanReturn(c1, c2, c3,
               Assemble(user_data, persona, structure,
                        ParseActivities(c3.response)))

\* plan_roadmap from the parsed structure on.
PlanActivities(user_data, persona, os, c1, c2, structure) ==
    PlanAssemble(user_data, persona, c1, c2, structure,
                 ModelCall(activities_prompt(user_data, persona, structure),
                           os[3]))

\* plan_roadmap from the parsed topics on.
PlanStructure(user_data, persona, os, c1, topics_parsed) ==
    PlanActivities(user_data, persona, os, c1,
                   ModelCall(plan_prompt(topics_parsed), os[2]),
                   ParseStructure(
                       ModelCall(plan_prompt(topics_parsed), os[2]).response))

\* plan_roadmap from the topics response on.
PlanTopics(user_data, persona, os, c1) ==
    PlanStructure(user_data, persona, os, c1, ParseTopics(c1.response))

\* plan_roadmap, os being what the remote endpoint does with its three
\* requests.
plan_roadmap(user_data, persona, os) ==
    PlanTopics(user_data, persona, os,
               ModelCall(think_prompt(user_data, persona), os[1]))

\* identify_topics: the parsed topics, or [] when parsing raises.
identify_topics(user_data, o) ==
    LET prompt == Prompt("identify", <<json_dumps(user_data)>>)
        output == generate(prompt, o)
        parsed == json_loads(clean_json_output(output))
    IN  [raised |-> FALSE,
         value  |-> IF parsed.ok THEN parsed.v ELSE EmptyList,
         calls  |-> <<[prompt |-> prompt, response |-> output]>>]

\* identify_topics_trace: (topics, prompt, output)
identify_topics_trace(user_data, o) ==
    LET prompt == Prompt("identify", <<json_dumps(user_data)>>)
        output == generate(prompt, o)
        parsed == json_loads(clean_json_output(output))
        topics == IF parsed.ok THEN parsed.v ELSE EmptyList
    IN  [raised |-> FALSE,
         value  |-> <<topics, prompt, output>>,
         calls  |-> <<[prompt |-> prompt, response |-> output]>>]

\* OrDefault with None where it has the default.
OrNone(parsed, default) == IF parsed.ok THEN parsed.v ELSE PyNone

\* The parsed response, or the default when parsing raises.
OrDefault(parsed, default) == IF parsed.ok THEN parsed.v ELSE default

\* TraceAssemble with the total hours read from the structure, not from the
\* activities.
TraceAssembleStructureHours(user_data, persona, structure, activities) ==
    IF ~IsDict(user_data) \/ ~IsDict(structure) \/ ~IsDict(activities)
    THEN [raised |-> TRUE, value |-> Unbound]
    ELSE [raised |-> FALSE,
          value  |-> PyDict(<<
            <<K_user_profile_summary, PyDict(<<
                <<K_persona, persona>>,
                <<K_domain, Get(user_data, K_domain, EmptyStr)>>,
                <<K_goals, Get(user_data, K_goals, EmptyList)>>,
                <<K_weekly_availability_hours,
                  Get(user_data, K_weekly_availability_hours, PyInt(0))>> >>)>>,
            <<K_roadmap, PyDict(<<
                <<K_title, PyStr(T_title_prefix \o py_str(persona))>>,
                <<K_duration_days,
                  Get(structure, K_duration_days, PyInt(DefaultDuration))>>,
                <<K_total_estimated_hours,
                  Get(structure, K_total_estimated_hours, PyInt(0))>>,
                <<K_levels, Get(activities, K_levels, EmptyList)>> >>)>> >>)]

\* plan_roadmap_trace: the roadmap document.  Each get raises on a value
\* that is not a dict.
TraceAssemble(user_data, persona, structure, activities) ==
    IF ~IsDict(user_data) \/ ~IsDict(structure) \/ ~IsDict(activities)
    THEN [raised |-> TRUE, value |-> Unbound]
    ELSE [raised |-> FALSE,
          value  |-> PyDict(<<
            <<K_user_profile_summary, PyDict(<<
                <<K_persona, persona>>,
                <<K_domain, Get(user_data, K_domain, EmptyStr)>>,
                <<K_goals, Get(user_data, K_goals, EmptyList)>>,
                <<K_weekly_availability_hours,
                  Get(user_data, K_weekly_availability_hours, PyInt(0))>> >>)>>,
            <<K_roadmap, PyDict(<<
                <<K_title, PyStr(T_title_prefix \o py_str(persona))>>,
                <<K_duration_days,
                  Get(structure, K_duration_days, PyInt(DefaultDuration))>>,
                <<K_total_estimated_hours,
                  Get(activities, K_total_estimated_hours, PyInt(0))>>,
                <<K_levels, Get(activities, K_levels, EmptyList)>> >>)>> >>)]

\* TraceReturn with the activities prompt given as the structure prompt.
TraceReturnMixed(made, tprompt, topics_output, c2, c3, doc) ==
    [raised |-> doc.raised,
     value  |-> IF doc.raised THEN Unbound
                ELSE << doc.value,
                        [topics |-> tprompt, structure |-> c3.prompt,
                         activities |-> c3.prompt],
                        [topics |-> topics_output, structure |-> c2.response,
                         activities |-> c3.response] >>,
     calls  |-> made \o <<c2, c3>>]

\* plan_roadmap_trace, its last lines: (roadmap_data, plan_prompts,
\* plan_responses).  made holds the call made for the topics, if one was.
TraceReturn(made, tprompt, topics_output, c2, c3, doc) ==
    [raised |-> doc.raised,
     value  |-> IF doc.raised THEN Unbound
                ELSE << doc.value,
                        [topics |-> tprompt, structure |-> c2.prompt,
                         activities |-> c3.prompt],
                        [topics |-> topics_output, structure |-> c2.response,
                         activities |-> c3.response] >>,
     calls  |-> made \o <<c2, c3>>]

\* plan_roadmap_trace from the activities response on.
TraceActivitiesParsed(user_data, persona, made, tprompt, topics_output, c2, structure, c3) ==
    TraceReturn(made, tprompt, topics_output, c2, c3,
                TraceAssemble(user_data, persona, structure,
                    OrDefault(json_loads(clean_json_output(c3.response)),
                              EmptyDict)))

\* plan_roadmap_trace from the parsed structure on.
TraceActivities(user_data, persona, made, tprompt, topics_output, c2, structure, o3) ==
    TraceActivitiesParsed(user_data, persona, made, tprompt, topics_output, c2,
        structure,
        ModelCall(Prompt("activities",
                         <<json_dumps(user_data), py_str(persona),
                           json_dumps(structure)>>), o3))

\* plan_roadmap_trace from the structure response on.
TraceStructureParsed(user_data, persona, made, tprompt, topics_output, c2, o3) ==
    TraceActivities(user_data, persona, made, tprompt, topics_output, c2,
        OrDefault(json_loads(clean_json_output(c2.response)), EmptyDict), o3)

\* TraceStructure with no topics in the structure prompt.
TraceStructureNoTopics(user_data, persona, made, tprompt, topics_now, topics_output, os) ==
    TraceStructureParsed(user_data, persona, made, tprompt, topics_output,
        ModelCall(Prompt("plan", <<json_dumps(EmptyList)>>), os[1]), os[2])

\* plan_roadmap_trace from the topics on, os being what the remote endpoint
\* does with the two requests left.
TraceStructure(user_data, persona, made, tprompt, topics_now, topics_output, os) ==
    TraceStructureParsed(user_data, persona, made, tprompt, topics_output,
        ModelCall(Prompt("plan", <<json_dumps(topics_now)>>), os[1]), os[2])

\* plan_roadmap_trace with topics None: the topics are asked for.
TraceAsked(user_data, persona, c1, os) ==
    TraceStructure(user_data, persona, <<c1>>, c1.prompt,
        OrDefault(json_loads(clean_json_output(c1.response)), EmptyList),
        c1.response, os)

\* plan_roadmap_trace: (roadmap_data, plan_prompts, plan_responses).  With
\* topics None the topics are asked for; with topics given no request is made
\* for them, and the topics response is made up from the given topics.  os is
\* what the remote endpoint does with the requests made.
plan_roadmap_trace(user_data, persona, topics_arg, os) ==
    IF topics_arg = PyNone
    THEN TraceAsked(user_data, persona,
             ModelCall(Prompt("think",
                              <<json_dumps(user_data), py_str(persona)>>),
                       os[1]),
             Tail(os))
    ELSE TraceStructure(user_data, persona, <<>>,
             Prompt("think", <<json_dumps(user_data), py_str(persona)>>),
             topics_arg,
             IF Truthy(topics_arg) THEN json_dumps(topics_arg) ELSE <<"[", "]">>,
             os)

\* -------------------------------------------------------- OutputFormatter

SepWidth == 60

Rep(c, n) == [i \in 1..n |-> c]

T_default_title == <<"G", "e", "n", "A", "I", " ", "R", "o", "a", "d", "m", "a", "p">>

T_duration == <<"D", "u", "r", "a", "t", "i", "o", "n", ":", " ">>

T_days_total == <<" ", "d", "a", "y", "s", " ", "|", " ", "T", "o", "t", "a", "l", " ", "H", "o", "u", "r", "s", ":", " ">>

T_level == <<"L", "e", "v", "e", "l", " ">>

T_est == <<" ", "(", "E", "s", "t", ".", " ">>

T_hrs == <<" ", "h", "r", "s", ")">>

T_topic == <<"-", " ", "T", "o", "p", "i", "c", ":", " ">>

T_activity == <<" ", " ", "A", "c", "t", "i", "v", "i", "t", "y", ":", " ">>

T_est_hours == <<" ", " ", "E", "s", "t", ".", " ", "H", "o", "u", "r", "s", ":", " ">>

T_justification == <<" ", " ", "J", "u", "s", "t", "i", "f", "i", "c", "a", "t", "i", "o", "n", ":", " ">>

\* What a for loop goes through: the items of a list, the keys of a dict,
\* the characters of a str; ok is FALSE where iterating raises.
Iterate(v) ==
    CASE v.t = "list" -> [ok |-> TRUE, items |-> v.a]
      [] v.t = "dict" -> [ok |-> TRUE,
                          items |-> [i \in 1..Len(v.o) |-> PyStr(v.o[i][1])]]
      [] v.t = "str"  -> [ok |-> TRUE,
                          items |-> [i \in 1..Len(v.s) |-> PyStr(<<v.s[i]>>)]]
      [] OTHER        -> [ok |-> FALSE, items |-> <<>>]

\* "\n".join(lines)
RECURSIVE JoinLines(_)
JoinLines(lines) ==
    IF lines = <<>> THEN <<>>
    ELSE IF Len(lines) = 1 THEN lines[1]
    ELSE lines[1] \o <<"\n">> \o JoinLines(Tail(lines))

\* format_table: the four lines of one topic.
TopicLines(topic) ==
    << T_topic \o py_str(Get(topic, K_topic, EmptyStr)),
       T_activity \o py_str(Get(topic, K_activity, EmptyStr)),
       T_est_hours \o py_str(Get(topic, K_estimated_hours, PyInt(0))),
       T_justification \o py_str(Get(topic, K_justification, EmptyStr))
          \o <<"\n">> >>

\* format_table: the lines of the topics from the k-th on; raised where
\* a topic has no get.
RECURSIVE FormatTopics(_, _)
FormatTopics(items, k) ==
    IF k > Len(items) THEN [raised |-> FALSE, lines |-> <<>>]
    ELSE IF ~IsDict(items[k]) THEN [raised |-> TRUE, lines |-> <<>>]
    ELSE LET rest == FormatTopics(items, k + 1)
         IN  IF rest.raised THEN rest
             ELSE [raised |-> FALSE,
                   lines  |-> TopicLines(items[k]) \o rest.lines]

\* format_table: the two header lines of one level.
LevelHeader(level) ==
    << <<"\n">> \o T_level \o py_str(Get(level, K_level, PyStr(<<"?">>)))
          \o <<":", " ">> \o py_str(Get(level, K_title, EmptyStr))
          \o T_est \o py_str(Get(level, K_estimated_hours, PyInt(0))) \o T_hrs,
       Rep("-", SepWidth) >>

\* format_table: the lines of the levels from the k-th on; raised where a
\* level has no get or its topics cannot be gone through.
RECURSIVE FormatLevels(_, _)
FormatLevels(items, k) ==
    IF k > Len(items) THEN [raised |-> FALSE, lines |-> <<>>]
    ELSE IF ~IsDict(items[k]) THEN [raised |-> TRUE, lines |-> <<>>]
    ELSE LET it == Iterate(Get(items[k], K_topics, EmptyList))
         IN  IF ~it.ok THEN [raised |-> TRUE, lines |-> <<>>]
             ELSE LET ts   == FormatTopics(it.items, 1)
                      rest == FormatLevels(items, k + 1)
                  IN  IF ts.raised THEN ts
                      ELSE IF rest.raised THEN rest
                      ELSE [raised |-> FALSE,
                            lines  |-> LevelHeader(items[k]) \o ts.lines
                                       \o rest.lines]

\* format_table
format_table(roadmap_data) ==
    IF ~IsDict(roadmap_data) \/ ~IsDict(Get(roadmap_data, K_roadmap, EmptyDict))
    THEN [raised |-> TRUE, value |-> Unbound]
    ELSE LET roadmap == Get(roadmap_data, K_roadmap, EmptyDict)
             it      == Iterate(Get(roadmap, K_levels, EmptyList))
             ls      == FormatLevels(it.items, 1)
         IN  IF ~it.ok \/ ls.raised THEN [raised |-> TRUE, value |-> Unbound]
             ELSE [raised |-> FALSE,
                   value  |-> PyStr(JoinLines(
                     << <<"\n">> \o Rep("=", SepWidth),
                        py_str(Get(roadmap, K_title, PyStr(T_default_title))),
                        T_duration
                          \o py_str(Get(roadmap, K_duration_days, PyInt(0)))
                          \o T_days_total
                          \o py_str(Get(roadmap, K_total_estimated_hours, PyInt(0))),
                        Rep("=", SepWidth) >>
                     \o ls.lines
                     \o << Rep("=", SepWidth) \o <<"\n">> >>))]

\* generate_pdf: what drawing the levels and topics needs of them; TRUE
\* where a get or a loop raises.
PdfRaises(roadmap_data) ==
    \/ ~IsDict(roadmap_data)
    \/ ~IsDict(Get(roadmap_data, K_roadmap, EmptyDict))
    \/ LET it == Iterate(Get(Get(roadmap_data, K_roadmap, EmptyDict),
                             K_levels, EmptyList))
       IN  \/ ~it.ok
           \/ \E k \in 1..Len(it.items) :
                \/ ~IsDict(it.items[k])
                \/ LET ts == Iterate(Get(it.items[k], K_topics, EmptyList))
                   IN  \/ ~ts.ok
                       \/ \E j \in 1..Len(ts.items) : ~IsDict(ts.items[j])

\* generate_pdf drawing and saving whether or not the PDF backend is there.
generate_pdf_anyway(roadmap_data, output_path, available) ==
    IF PdfRaises(roadmap_data)
    THEN [raised |-> TRUE, value |-> Unbound, saved |-> FALSE]
    ELSE [raised |-> FALSE, value |-> output_path, saved |-> TRUE]

\* generate_pdf: '' and nothing drawn without the PDF backend; with it the
\* document is drawn and saved at output_path, which is returned.  saved
\* tells whether the file was written.
generate_pdf(roadmap_data, output_path, available) ==
    IF ~available
    THEN [raised |-> FALSE, value |-> EmptyStr, saved |-> FALSE]
    ELSE IF PdfRaises(roadmap_data)
    THEN [raised |-> TRUE, value |-> Unbound, saved |-> FALSE]
    ELSE [raised |-> FALSE, value |-> output_path, saved |-> TRUE]

\* generate_pdf, its layout: the page is letter, 792 points high; y starts
\* at height - margin and goes down by line_space a line.
PageHeight == 792

Margin == 40

LineSpace == 18

\* y below which a new page is started, once a topic is drawn.
PageBreakBelow == 80

TitleGap == 8

DurationGap == 12

HeaderGap == 4

TopicGap == 8

LevelGap == 8

TopOfPage == PageHeight - Margin

\* draw_wrapped of a text that simpleSplit cuts into n lines, from y on:
\* the y it returns and the y of each drawString.
draw_wrapped(y, n) ==
    [y |-> y - n * LineSpace, drawn |-> {y - k * LineSpace : k \in 0..(n - 1)}]

\* The least of y and the members of ys.
Lowest(y, ys) == IF \E v \in ys : v < y
                 THEN CHOOSE v \in ys : \A w \in ys : v <= w
                 ELSE y

\* The fields of a topic generate_pdf draws, each with draw_wrapped.
TopicFields == <<"topic", "activity", "estimated_hours", "justification">>

\* generate_pdf, the test after a topic: a new page when y is below the
\* threshold.
AfterTopic(y) == IF y < PageBreakBelow THEN TopOfPage ELSE y

\* ------------------------------------------------------------ the inputs

\* The most whitespace put around a text or a fence body.
MaxPad == 1

T_json == <<"j", "s", "o", "n">>

T_JSON == <<"J", "S", "O", "N">>

T_json5 == <<"j", "s", "o", "n", "5">>

T_sorry == <<"S", "o", "r", "r", "y", ",", " ", "n", "o", ".">>

T_cv == <<"c", "v">>

T_interview == <<"h", "a", "n", "d", "s", "-", "o", "n">>

T_goals == <<"u", "s", "e", " ", "l", "l", "m">>

T_student == <<"C", "o", "l", "l", "e", "g", "e", " ", "s", "t", "u", "d", "e", "n", "t">>

T_tmp_pdf == <<"t", "m", "p", ".", "p", "d", "f">>

T_out_pdf == <<"r", "o", "a", "d", "m", "a", "p", ".", "p", "d", "f">>

ResumeTexts == {T_cv}

\* What the remote endpoint may do with the request of each stage.
ExtractOutcomes ==
    { Failure, TextReply(T_sorry), TextReply(T_NaN),
      JsonReply(X_profile, V_profile),
      JsonReply(Fenced(T_json, X_profile), V_profile),
      JsonReply(Fenced(T_json5, X_profile_short), V_profile_short),
      JsonReply(X_array, V_array),
      JsonReply(X_null, V_null) }

ClassifyOutcomes ==
    { Failure, TextReply(T_sorry), TextReply(T_NaN),
      JsonReply(Fenced(T_json, X_persona), V_persona),
      JsonReply(X_persona_int, V_persona_int),
      JsonReply(X_array, V_array) }

ThinkOutcomes ==
    { Failure, TextReply(<<" ", "\n">>), TextReply(Fenced(T_json, T_sorry)),
      TextReply(T_NegInfinity),
      JsonReply(X_topics, V_topics),
      JsonReply(X_object, V_object) }

PlanOutcomes ==
    { Failure, TextReply(T_sorry), TextReply(Fenced(T_json, T_Infinity)),
      JsonReply(Fenced(<<>>, X_structure), V_structure),
      JsonReply(X_structure_week, V_structure_week),
      JsonReply(X_array, V_array) }

ActivitiesOutcomes ==
    { Failure, TextReply(T_sorry), TextReply(T_NaN),
      JsonReply(<<" ">> \o X_activities \o <<"\n">>, V_activities),
      JsonReply(X_activities_total, V_activities_total),
      JsonReply(X_activities_bare, V_activities_bare),
      JsonReply(X_activities_bad, V_activities_bad),
      JsonReply(X_array, V_array) }

\* The arguments of the stage functions called on their own.
UserDatas == {EmptyDict, V_profile, V_array}

Personas == {EmptyStr, PyStr(T_student), PyInt(5)}

TopicsArgs == {PyNone, EmptyList, V_topics}

\* The whitespace put around a fenced block and around its inner content:
\* every text of at most MaxPad spaces and line feeds.
Pads == UNION {[1..n -> {" ", "\n"}] : n \in 0..MaxPad}

\* The language tags of the fenced blocks: none, letters, letters and a digit.
Tags == {<<>>, T_json, T_JSON, T_json5}

\* The inner contents of the fenced blocks.
Inners == {<<>>, X_object, X_array, X_profile_short, T_true}

\* The documents generate_pdf is called on.
PdfDocs ==
    { EmptyDict,
      Assemble(V_profile, PyStr(T_student), V_structure, V_activities).value,
      Assemble(V_profile, PyStr(T_student), V_structure, V_activities_bad).value }

\* The most levels of a drawn document, the most topics of a level, and the
\* most lines simpleSplit cuts a text into.
MaxLevels == 2

MaxTopics == 2

MaxLines == 2

\* The numbers of lines simpleSplit may cut a text of generate_pdf into.
LineCounts == 1..MaxLines

\* A level of k topics, none with a field.
ShapedLevel(k) == PyDict(<< <<K_topics, PyList([j \in 1..k |-> EmptyDict])>> >>)

\* A document whose i-th level has shape[i] topics.
ShapedDoc(shape) ==
    PyDict(<< <<K_roadmap, PyDict(<<
        <<K_levels, PyList([i \in 1..Len(shape) |-> ShapedLevel(shape[i])])>>
    >>)>> >>)

\* The documents generate_pdf is watched drawing.
DrawnDocs ==
    {ShapedDoc(shape) : shape \in UNION {[1..n -> 0..MaxTopics] : n \in 0..MaxLevels}}

\* ------------------------------------------------------------- the state

VARIABLES
    REPORTLAB_AVAILABLE,  \* whether the PDF backend was imported
    pc,                   \* where generate_roadmap is
    args,                 \* the arguments of generate_roadmap
    user_data,            \* the locals of generate_roadmap and plan_roadmap
    persona,
    discarded,            \* the local named _, the justification
    topics,
    structure,
    activities,
    roadmap_data,
    roadmap_table,
    pdf_path,
    raised_at,            \* the function whose exception left generate_roadmap
    calls,                \* the calls of the model client, in order
    remote,               \* what the remote endpoint did with each of them
    files,                \* the files written
    ret,                  \* the call of a function on its own, and its result
    pdf                   \* generate_pdf at work: where it is, y, what it drew

vars == << REPORTLAB_AVAILABLE, pc, args, user_data, persona, discarded, topics, structure,
           activities, roadmap_data, roadmap_table, pdf_path, raised_at, calls,
           remote, files, ret, pdf >>

locals == << user_data, persona, discarded, topics, structure, activities, roadmap_data,
             roadmap_table, pdf_path >>

NoCall == [op |-> "none"]

NoPdf == [at |-> "off"]

Init ==
    /\ REPORTLAB_AVAILABLE \in BOOLEAN
    /\ pc = "idle"
    /\ args = Unbound
    /\ user_data = Unbound
    /\ persona = Unbound
    /\ discarded = Unbound
    /\ topics = Unbound
    /\ structure = Unbound
    /\ activities = Unbound
    /\ roadmap_data = Unbound
    /\ roadmap_table = Unbound
    /\ pdf_path = Unbound
    /\ raised_at = "nowhere"
    /\ calls = <<>>
    /\ remote = <<>>
    /\ files = {}
    /\ ret = NoCall
    /\ pdf = NoPdf

\* ------------------------------------------------------ generate_roadmap

\* generate_roadmap is called.
Call(resume_text, generate_pdf_flag) ==
    /\ pc = "idle"
    /\ ret = NoCall
    /\ args' = [resume_text |-> resume_text,
                interview_summary_text |-> T_interview,
                goals_text |-> T_goals,
                generate_pdf |-> generate_pdf_flag]
    /\ pc' = "extract"
    /\ UNCHANGED << REPORTLAB_AVAILABLE, pdf, locals, raised_at, calls, remote,
                    files, ret >>

\* Step 1: user_data = extract_user_data(...)
Extract(o) ==
    /\ pc = "extract"
    /\ LET r == extract_user_data(args.resume_text, args.interview_summary_text,
                                  args.goals_text, o)
       IN  /\ user_data' = r.value
           /\ calls' = calls \o r.calls
    /\ remote' = Append(remote, o)
    /\ pc' = "classify"
    /\ UNCHANGED << REPORTLAB_AVAILABLE, pdf, args, persona, discarded, topics,
                    structure, activities, roadmap_data, roadmap_table,
                    pdf_path, raised_at, files, ret >>

\* Step 2: persona, _ = classify_persona(user_data)
Classify(o) ==
    /\ pc = "classify"
    /\ LET r == classify_persona(user_data, o)
       IN  /\ persona' = r.value[1]
           /\ discarded' = r.value[2]
           /\ calls' = calls \o r.calls
    /\ remote' = Append(remote, o)
    /\ pc' = "think"
    /\ UNCHANGED << REPORTLAB_AVAILABLE, pdf, args, user_data, topics, structure,
                    activities, roadmap_data, roadmap_table, pdf_path,
                    raised_at, files, ret >>

\* Step 3, plan_roadmap: the topics are asked for and parsed.
Think(o) ==
    /\ pc = "think"
    /\ LET c == ModelCall(think_prompt(user_data, persona), o)
       IN  /\ topics' = ParseTopics(c.response)
           /\ calls' = Append(calls, c)
    /\ remote' = Append(remote, o)
    /\ pc' = "plan"
    /\ UNCHANGED << REPORTLAB_AVAILABLE, pdf, args, user_data, persona, discarded, structure,
                    activities, roadmap_data, roadmap_table, pdf_path,
                    raised_at, files, ret >>

\* plan_roadmap: the structure is asked for and parsed.
Plan(o) ==
    /\ pc = "plan"
    /\ LET c == ModelCall(plan_prompt(topics), o)
       IN  /\ structure' = ParseStructure(c.response)
           /\ calls' = Append(calls, c)
    /\ remote' = Append(remote, o)
    /\ pc' = "activities"
    /\ UNCHANGED << REPORTLAB_AVAILABLE, pdf, args, user_data, persona, discarded, topics,
                    activities, roadmap_data, roadmap_table, pdf_path,
                    raised_at, files, ret >>

\* plan_roadmap: the activities are asked for and parsed.
Activities(o) ==
    /\ pc = "activities"
    /\ LET c == ModelCall(activities_prompt(user_data, persona, structure), o)
       IN  /\ activities' = ParseActivities(c.response)
           /\ calls' = Append(calls, c)
    /\ remote' = Append(remote, o)
    /\ pc' = "assemble"
    /\ UNCHANGED << REPORTLAB_AVAILABLE, pdf, args, user_data, persona, discarded, topics,
                    structure, roadmap_data, roadmap_table, pdf_path,
                    raised_at, files, ret >>

\* plan_roadmap: the document is assembled and returned, or a get raises.
AssembleStep ==
    /\ pc = "assemble"
    /\ LET doc == Assemble(user_data, persona, structure, activities)
       IN  IF doc.raised
           THEN /\ pc' = "raised"
                /\ raised_at' = "plan_roadmap"
                /\ UNCHANGED roadmap_data
           ELSE /\ pc' = "format"
                /\ roadmap_data' = doc.value
                /\ UNCHANGED raised_at
    /\ UNCHANGED << REPORTLAB_AVAILABLE, pdf, args, user_data, persona, discarded, topics,
                    structure, activities, roadmap_table, pdf_path, calls,
                    remote, files, ret >>

\* roadmap_table = format_table(roadmap_data)
Format ==
    /\ pc = "format"
    /\ LET r == format_table(roadmap_data)
       IN  IF r.raised
           THEN /\ pc' = "raised"
                /\ raised_at' = "format_table"
                /\ UNCHANGED roadmap_table
           ELSE /\ pc' = "pdf"
                /\ roadmap_table' = r.value
                /\ UNCHANGED raised_at
    /\ UNCHANGED << REPORTLAB_AVAILABLE, pdf, args, user_data, persona, discarded, topics,
                    structure, activities, roadmap_data, pdf_path, calls,
                    remote, files, ret >>

\* The end of generate_roadmap: with generate_pdf asked for and the PDF
\* backend there, a temporary file is made and the PDF written to it; then
\* (roadmap_data, roadmap_table, pdf_path) is returned.
Return ==
    /\ pc = "pdf"
    /\ IF args.generate_pdf /\ REPORTLAB_AVAILABLE
       THEN LET r == generate_pdf(roadmap_data, PyStr(T_tmp_pdf),
                                  REPORTLAB_AVAILABLE)
            IN  /\ pdf_path' = PyStr(T_tmp_pdf)
                /\ files' = files \cup {T_tmp_pdf}
                /\ pc' = IF r.raised THEN "raised" ELSE "done"
                /\ raised_at' = IF r.raised THEN "generate_pdf" ELSE raised_at
       ELSE /\ pdf_path' = PyNone
            /\ pc' = "done"
            /\ UNCHANGED << files, raised_at >>
    /\ UNCHANGED << REPORTLAB_AVAILABLE, pdf, args, user_data, persona, discarded, topics,
                    structure, activities, roadmap_data, roadmap_table, calls,
                    remote, ret >>

\* ----------------------------------------- the functions called on their own

\* A function is called on its own: ret keeps its name, its arguments, what
\* the remote endpoint did with its requests, and its result.  note is not
\* read by the program: it records how the arguments were made.
Alone(op, a, os, result, note) ==
    /\ ret' = [op |-> op, args |-> a, os |-> os, result |-> result,
               note |-> note]
    /\ UNCHANGED << REPORTLAB_AVAILABLE, pdf, pc, args, locals, raised_at, calls,
                    remote >>

\* Nothing has been called yet.
Idle == pc = "idle" /\ ret = NoCall

CallExtractTrace ==
    /\ Idle
    /\ \E resume_text \in ResumeTexts, o \in ExtractOutcomes :
         Alone("extract_user_data_trace",
               <<resume_text, T_interview, T_goals>>, <<o>>,
               extract_user_data_trace(resume_text, T_interview, T_goals, o),
               <<>>)
    /\ UNCHANGED files

CallClassifyTrace ==
    /\ Idle
    /\ \E ud \in UserDatas, o \in ClassifyOutcomes :
         Alone("classify_persona_trace", <<ud>>, <<o>>,
               classify_persona_trace(ud, o), <<>>)
    /\ UNCHANGED files

CallIdentifyTopics ==
    /\ Idle
    /\ \E ud \in UserDatas, o \in ThinkOutcomes :
         Alone("identify_topics", <<ud>>, <<o>>, identify_topics(ud, o), <<>>)
    /\ UNCHANGED files

CallIdentifyTopicsTrace ==
    /\ Idle
    /\ \E ud \in UserDatas, o \in ThinkOutcomes :
         Alone("identify_topics_trace", <<ud>>, <<o>>,
               identify_topics_trace(ud, o), <<>>)
    /\ UNCHANGED files

\* The requests plan_roadmap_trace makes: three with topics None, else two.
PlanTraceOutcomes(ts) ==
    IF ts = PyNone
    THEN {<<o1, o2, o3>> : o1 \in ThinkOutcomes, o2 \in PlanOutcomes,
                           o3 \in ActivitiesOutcomes}
    ELSE {<<o2, o3>> : o2 \in PlanOutcomes, o3 \in ActivitiesOutcomes}

CallPlanTrace ==
    /\ Idle
    /\ \E ud \in UserDatas, p \in Personas, ts \in TopicsArgs :
         \E os \in PlanTraceOutcomes(ts) :
            Alone("plan_roadmap_trace", <<ud, p, ts>>, os,
                  plan_roadmap_trace(ud, p, ts, os), <<>>)
    /\ UNCHANGED files

\* A fenced code block as a text: the opening fence with its language tag on
\* a line, the inner content, the closing fence, with whitespace before and
\* after the block and around the inner content.
FencedBlock(before, tag, lead, inner, trail, after) ==
    before \o Fence \o tag \o <<"\n">> \o lead \o inner \o trail \o Fence \o after

\* clean_json_output is called on a fenced code block.
CallClean ==
    /\ Idle
    /\ \E before \in Pads, lead \in Pads, trail \in Pads, after \in Pads :
         \E tag \in Tags, inner \in Inners :
            Alone("clean_json_output",
                  <<FencedBlock(before, tag, lead, inner, trail, after)>>, <<>>,
                  [raised |-> FALSE,
                   value  |-> clean_json_output(
                        FencedBlock(before, tag, lead, inner, trail, after))],
                  [tag |-> tag, inner |-> inner])
    /\ UNCHANGED files

\* generate_pdf is called on a document, to write it to roadmap.pdf.
CallGeneratePdf ==
    /\ Idle
    /\ \E doc \in PdfDocs :
         /\ Alone("generate_pdf", <<doc, PyStr(T_out_pdf)>>, <<>>,
                  generate_pdf(doc, PyStr(T_out_pdf), REPORTLAB_AVAILABLE),
                  <<>>)
         /\ files' = IF generate_pdf(doc, PyStr(T_out_pdf),
                                     REPORTLAB_AVAILABLE).saved
                     THEN files \cup {T_out_pdf} ELSE files

\* generate_pdf is called on the document generate_roadmap returned.
CallGeneratePdfReturned ==
    /\ pc = "done"
    /\ ret = NoCall
    /\ Alone("generate_pdf", <<roadmap_data, PyStr(T_out_pdf)>>, <<>>,
             generate_pdf(roadmap_data, PyStr(T_out_pdf), REPORTLAB_AVAILABLE),
             <<>>)
    /\ files' = IF generate_pdf(roadmap_data, PyStr(T_out_pdf),
                                REPORTLAB_AVAILABLE).saved
                THEN files \cup {T_out_pdf} ELSE files

\* --------------------------------------------- generate_pdf, step by step

\* The levels generate_pdf goes through, and the topics of the i-th.
PdfLevels == Get(Get(pdf.doc, K_roadmap, EmptyDict), K_levels, EmptyList).a

PdfTopics(i) == Get(PdfLevels[i], K_topics, EmptyList).a

\* generate_pdf is called with the PDF backend there: the canvas is made, and
\* the title and the duration line are drawn from the top of the page.
PdfBegin ==
    /\ Idle
    /\ REPORTLAB_AVAILABLE
    /\ \E doc \in DrawnDocs, n1 \in LineCounts, n2 \in LineCounts :
         /\ ret' = [op |-> "generate_pdf", args |-> <<doc, PyStr(T_out_pdf)>>,
                    os |-> <<>>,
                    result |-> [raised |-> FALSE, value |-> Unbound,
                                saved |-> FALSE],
                    note |-> <<>>]
         /\ pdf' = [at |-> "level", doc |-> doc, i |-> 1, j |-> 1, k |-> 1,
                    y |-> draw_wrapped(
                              draw_wrapped(TopOfPage, n1).y - TitleGap, n2).y
                          - DurationGap,
                    lowest |-> Lowest(PageHeight,
                        draw_wrapped(TopOfPage, n1).drawn
                        \cup draw_wrapped(
                              draw_wrapped(TopOfPage, n1).y - TitleGap, n2).drawn),
                    pages |-> 1]
    /\ UNCHANGED << REPORTLAB_AVAILABLE, pc, args, locals, raised_at, calls,
                    remote, files >>

\* The header of the next level is drawn.
PdfLevel ==
    /\ pdf.at = "level"
    /\ pdf.i <= Len(PdfLevels)
    /\ \E n \in LineCounts :
         pdf' = [pdf EXCEPT !.at = "topic", !.j = 1, !.k = 1,
                            !.y = draw_wrapped(pdf.y, n).y - HeaderGap,
                            !.lowest = Lowest(pdf.lowest,
                                              draw_wrapped(pdf.y, n).drawn)]
    /\ UNCHANGED << REPORTLAB_AVAILABLE, pc, args, locals, raised_at, calls,
                    remote, files, ret >>

\* The next field of the topic is drawn; after the last one comes the gap
\* after a topic, and a new page is started if y is below the threshold.
PdfField ==
    /\ pdf.at = "topic"
    /\ pdf.j <= Len(PdfTopics(pdf.i))
    /\ \E n \in LineCounts :
         IF pdf.k < Len(TopicFields)
         THEN pdf' = [pdf EXCEPT !.k = pdf.k + 1,
                        !.y = draw_wrapped(pdf.y, n).y,
                        !.lowest = Lowest(pdf.lowest,
                                          draw_wrapped(pdf.y, n).drawn)]
         ELSE pdf' = [pdf EXCEPT !.k = 1, !.j = pdf.j + 1,
                        !.y = AfterTopic(draw_wrapped(pdf.y, n).y - TopicGap),
                        !.lowest = Lowest(pdf.lowest,
                                          draw_wrapped(pdf.y, n).drawn),
                        !.pages =
                            IF draw_wrapped(pdf.y, n).y - TopicGap < PageBreakBelow
                            THEN pdf.pages + 1 ELSE pdf.pages]
    /\ UNCHANGED << REPORTLAB_AVAILABLE, pc, args, locals, raised_at, calls,
                    remote, files, ret >>

\* The topics of the level are drawn: the gap after a level.
PdfEndLevel ==
    /\ pdf.at = "topic"
    /\ pdf.j > Len(PdfTopics(pdf.i))
    /\ pdf' = [pdf EXCEPT !.at = "level", !.i = pdf.i + 1,
                          !.y = pdf.y - LevelGap]
    /\ UNCHANGED << REPORTLAB_AVAILABLE, pc, args, locals, raised_at, calls,
                    remote, files, ret >>

\* The levels are drawn: the file is saved and output_path returned.
PdfSave ==
    /\ pdf.at = "level"
    /\ pdf.i > Len(PdfLevels)
    /\ pdf' = [pdf EXCEPT !.at = "saved"]
    /\ ret' = [ret EXCEPT !.result = generate_pdf(pdf.doc, PyStr(T_out_pdf),
                                                  REPORTLAB_AVAILABLE)]
    /\ files' = files \cup {T_out_pdf}
    /\ UNCHANGED << REPORTLAB_AVAILABLE, pc, args, locals, raised_at, calls,
                    remote >>

Next ==
    \/ \E r \in ResumeTexts, g \in BOOLEAN : Call(r, g)
    \/ \E o \in ExtractOutcomes : Extract(o)
    \/ \E o \in ClassifyOutcomes : Classify(o)
    \/ \E o \in ThinkOutcomes : Think(o)
    \/ \E o \in PlanOutcomes : Plan(o)
    \/ \E o \in ActivitiesOutcomes : Activities(o)
    \/ AssembleStep
    \/ Format
    \/ Return
    \/ CallExtractTrace
    \/ CallClassifyTrace
    \/ CallIdentifyTopics
    \/ CallIdentifyTopicsTrace
    \/ CallPlanTrace
    \/ CallClean
    \/ CallGeneratePdf
    \/ CallGeneratePdfReturned
    \/ PdfBegin
    \/ PdfLevel
    \/ PdfField
    \/ PdfEndLevel
    \/ PdfSave

Spec == Init /\ [][Next]_vars

\* ================================================================ claims

\* The stages of generate_roadmap that call the model client, in order, and
\* the default each has for a response that does not parse.
StageOrder == <<"extract", "classify", "think", "plan", "activities">>

StageCount == Len(StageOrder)

\* C1: generate_roadmap never raises an exception, whatever the model
\* client returns: it always returns its three values.
C1_NeverRaises == pc # "raised"

\* C2: a stage whose response is not JSON ends with its default and raises
\* nothing: {} for the extraction, ('', '') for the persona, [] for the
\* topics (in plan_roadmap and in identify_topics), {} for the structure and
\* {} for the activities; and an exception that leaves generate_roadmap
\* comes of a response that was JSON.
C2_NonJsonGivesDefault ==
    /\ (Len(remote) >= 1 /\ ~remote[1].json) => user_data = EmptyDict
    /\ (Len(remote) >= 2 /\ ~remote[2].json) =>
            persona = EmptyStr /\ discarded = EmptyStr
    /\ (Len(remote) >= 3 /\ ~remote[3].json) => topics = EmptyList
    /\ (Len(remote) >= 4 /\ ~remote[4].json) => structure = EmptyDict
    /\ (Len(remote) >= 5 /\ ~remote[5].json) => activities = EmptyDict
    /\ pc = "raised" => \E i \in 1..Len(remote) : remote[i].json
    /\ (ret.op \in {"identify_topics", "identify_topics_trace"}
            /\ ~ret.os[1].json) =>
            /\ ~ret.result.raised
            /\ ret.op = "identify_topics" => ret.result.value = EmptyList
            /\ ret.op = "identify_topics_trace" =>
                    ret.result.value[1] = EmptyList
    /\ (ret.op = "extract_user_data_trace" /\ ~ret.os[1].json) =>
            ~ret.result.raised /\ ret.result.value[1] = EmptyDict
    /\ (ret.op = "classify_persona_trace" /\ ~ret.os[1].json) =>
            /\ ~ret.result.raised
            /\ ret.result.value[1] = EmptyStr
            /\ ret.result.value[2] = EmptyStr

\* What json.loads makes of the response o once generate has stripped it
\* and clean_json_output has taken its fence off.
Loaded(o) == json_loads(clean_json_output(generate(<<>>, o)))

\* The value json.loads reads in the response o, or default when it rejects
\* the response.
ReadOr(o, default) == LET l == Loaded(o) IN IF l.ok THEN l.v ELSE default

\* json.loads rejects the response o, or reads no object in it.
NoObject(o) == LET l == Loaded(o) IN IF l.ok THEN ~IsDict(l.v) ELSE TRUE

\* json.loads reads a float in the response o.
FloatRead(o) == LET l == Loaded(o) IN IF l.ok THEN l.v.t = "float" ELSE FALSE

\* C2, as the code has it: when a stage returns (its response is then the
\* last of remote) after a call that failed or a response json.loads rejects
\* after cleaning, its result is its default and it has raised nothing: {}
\* for the extraction, ('', '') for the persona, [] for the topics (in
\* plan_roadmap and in identify_topics), {} for the structure and {} for
\* the activities.  A response that is not JSON but that json.loads
\* reads (NaN, Infinity, -Infinity, bare or fenced) is no such response:
\* the extraction, the topics, the structure and the activities stage end
\* with the float it reads; the persona stage ends with ('', '') whenever
\* json.loads reads no object.  An exception that leaves generate_roadmap
\* comes of a response json.loads read.
C2_RejectedGivesDefault ==
    /\ Len(remote) = 1 =>
            user_data = ReadOr(remote[1], EmptyDict)
    /\ (Len(remote) = 2 /\ NoObject(remote[2])) =>
            persona = EmptyStr /\ discarded = EmptyStr
    /\ Len(remote) = 3 => topics = ReadOr(remote[3], EmptyList)
    /\ Len(remote) = 4 => structure = ReadOr(remote[4], EmptyDict)
    /\ Len(remote) = 5 => activities = ReadOr(remote[5], EmptyDict)
    /\ (Len(remote) >= 1 /\ ~remote[Len(remote)].json
            /\ remote[Len(remote)].ok) =>
                \/ ~Loaded(remote[Len(remote)]).ok
                \/ FloatRead(remote[Len(remote)])
    /\ pc = "raised" => \E i \in 1..Len(remote) : Loaded(remote[i]).ok
    /\ ret.op \in {"identify_topics", "identify_topics_trace"} =>
            /\ ~ret.result.raised
            /\ ret.op = "identify_topics" =>
                    ret.result.value = ReadOr(ret.os[1], EmptyList)
            /\ ret.op = "identify_topics_trace" =>
                    ret.result.value[1]
                        = ReadOr(ret.os[1], EmptyList)
    /\ ret.op = "extract_user_data_trace" =>
            /\ ~ret.result.raised
            /\ ret.result.value[1] = ReadOr(ret.os[1], EmptyDict)
    /\ (ret.op = "classify_persona_trace" /\ NoObject(ret.os[1])) =>
            /\ ~ret.result.raised
            /\ ret.result.value[1] = EmptyStr
            /\ ret.result.value[2] = EmptyStr

\* C2, its case: generate_roadmap has returned after five responses none of
\* which was JSON, the first a text and the third a fenced text.
C2_Witness ==
    /\ pc = "done"
    /\ Len(remote) = StageCount
    /\ \A i \in 1..StageCount : ~remote[i].json
    /\ remote[1] = TextReply(T_sorry)
    /\ remote[3] = TextReply(Fenced(T_json, T_sorry))
    /\ remote[5] = Failure

\* Every call of the model client so far gave the empty string.
AllEmpty == \A i \in 1..Len(calls) : calls[i].response = <<>>

\* The table of a document with no levels, thirty days and no hours, for the
\* persona ''.
BareTable == <<"\n", "=", "=", "=", "=", "=", "=", "=", "=", "=", "=", "=", "=", "=", "=", "=", "=", "=", "=", "=", "=", "=", "=", "=", "=", "=", "=", "=", "=", "=", "=", "=", "=", "=", "=", "=", "=", "=", "=", "=", "=", "=", "=", "=", "=", "=", "=", "=", "=", "=", "=", "=", "=", "=", "=", "=", "=", "=", "=", "=", "=", "\n", "P", "e", "r", "s", "o", "n", "a", "l", "i", "z", "e", "d", " ", "G", "e", "n", "A", "I", " ", "R", "o", "a", "d", "m", "a", "p", " ", "f", "o", "r", " ", "\n", "D", "u", "r", "a", "t", "i", "o", "n", ":", " ", "3", "0", " ", "d", "a", "y", "s", " ", "|", " ", "T", "o", "t", "a", "l", " ", "H", "o", "u", "r", "s", ":", " ", "0", "\n", "=", "=", "=", "=", "=", "=", "=", "=", "=", "=", "=", "=", "=", "=", "=", "=", "=", "=", "=", "=", "=", "=", "=", "=", "=", "=", "=", "=", "=", "=", "=", "=", "=", "=", "=", "=", "=", "=", "=", "=", "=", "=", "=", "=", "=", "=", "=", "=", "=", "=", "=", "=", "=", "=", "=", "=", "=", "=", "=", "=", "\n", "=", "=", "=", "=", "=", "=", "=", "=", "=", "=", "=", "=", "=", "=", "=", "=", "=", "=", "=", "=", "=", "=", "=", "=", "=", "=", "=", "=", "=", "=", "=", "=", "=", "=", "=", "=", "=", "=", "=", "=", "=", "=", "=", "=", "=", "=", "=", "=", "=", "=", "=", "=", "=", "=", "=", "=", "=", "=", "=", "=", "\n">>

\* C3: with the empty string from every call of the model client,
\* generate_roadmap returns, its document has duration_days 30,
\* total_estimated_hours 0 and no levels, and its table is the header block
\* alone.
C3_EmptyResponsesGiveDefaults ==
    (Len(calls) = StageCount /\ AllEmpty) =>
        /\ pc \in {"assemble", "format", "pdf", "done"}
        /\ pc \in {"format", "pdf", "done"} =>
            /\ IsDict(roadmap_data)
            /\ HasKey(roadmap_data, K_roadmap)
            /\ Lookup(roadmap_data, K_roadmap).o[2] =
                    <<K_duration_days, PyInt(30)>>
            /\ Lookup(roadmap_data, K_roadmap).o[3] =
                    <<K_total_estimated_hours, PyInt(0)>>
            /\ Lookup(roadmap_data, K_roadmap).o[4] = <<K_levels, PyList(<<>>)>>
        /\ pc \in {"pdf", "done"} => roadmap_table = PyStr(BareTable)

\* C3, its case: generate_roadmap has returned after five empty responses,
\* the third a text of whitespace and the others failed calls.
C3_Witness ==
    /\ pc = "done"
    /\ Len(calls) = StageCount
    /\ AllEmpty
    /\ remote[3] = TextReply(<<" ", "\n">>)
    /\ remote[5] = Failure
    /\ roadmap_table = PyStr(BareTable)

\* C4: for a fenced code block, with a language tag after the opening fence
\* or without one, clean_json_output gives the inner content of the block,
\* with no fence marker left in it and no whitespace at its ends.
C4_FencedBlockGivesInner ==
    ret.op = "clean_json_output" =>
        /\ ret.result.value = Strip(ret.note.inner)
        /\ \A i \in 1..Len(ret.result.value) : ret.result.value[i] # Backtick
        /\ ret.result.value # <<>> =>
                /\ Head(ret.result.value) \notin Whitespace
                /\ ret.result.value[Len(ret.result.value)] \notin Whitespace

\* The response is well-formed JSON, bare or in a code fence.
WellFormed(o) == o.json

\* C5: at every stage a response that is well-formed JSON, bare or in a code
\* fence, is parsed to the value it encodes: the profile, the topics, the
\* structure and the activities are that value, and the persona and its
\* justification are the ones of that value.
C5_WellFormedJsonRoundTrips ==
    /\ (Len(remote) >= 1 /\ WellFormed(remote[1])) =>
            user_data = remote[1].value
    /\ (Len(remote) >= 2 /\ WellFormed(remote[2]) /\ IsDict(remote[2].value)) =>
            /\ HasKey(remote[2].value, K_persona) =>
                    persona = Lookup(remote[2].value, K_persona)
            /\ HasKey(remote[2].value, K_justification) =>
                    discarded = Lookup(remote[2].value, K_justification)
    /\ (Len(remote) >= 3 /\ WellFormed(remote[3])) => topics = remote[3].value
    /\ (Len(remote) >= 4 /\ WellFormed(remote[4])) =>
            structure = remote[4].value
    /\ (Len(remote) >= 5 /\ WellFormed(remote[5])) =>
            activities = remote[5].value
    /\ (ret.op \in {"extract_user_data_trace", "identify_topics_trace"}
            /\ WellFormed(ret.os[1])) =>
            ret.result.value[1] = ret.os[1].value
    /\ (ret.op = "identify_topics" /\ WellFormed(ret.os[1])) =>
            ret.result.value = ret.os[1].value

\* The durations the structure prompt asks the model to choose from.
Durations == {PyInt(21), PyInt(30), PyInt(45)}

\* The roadmap part of the document generate_roadmap returns, as a function
\* of its keys.
Returned(k) == Lookup(Lookup(roadmap_data, K_roadmap), k)

\* All five calls of the model client succeeded with well-formed JSON, and
\* generate_roadmap has returned.
AllWellFormedAndDone ==
    /\ pc = "done"
    /\ \A i \in 1..Len(remote) : WellFormed(remote[i])

\* C6, as the specification has it: whenever all five calls succeed with
\* well-formed JSON, the returned document has duration_days in
\* {21, 30, 45} and at least one level.
C6_DurationAndLevelsValid ==
    AllWellFormedAndDone =>
        /\ Returned(K_duration_days) \in Durations
        /\ IsList(Returned(K_levels))
        /\ Len(Returned(K_levels).a) >= 1

\* C6, amended: whenever all five calls succeed with well-formed JSON, the
\* returned document has the duration_days of the parsed structure (30 when
\* it has none) and the levels of the parsed activities (none when they
\* have none); so it has duration_days in {21, 30, 45} and at least one
\* level where the parsed structure has such a duration or none and the
\* parsed activities have a list of at least one level.
C6_DurationAndLevelsAsParsed ==
    AllWellFormedAndDone =>
        /\ Returned(K_duration_days) =
                IF HasKey(structure, K_duration_days)
                THEN Lookup(structure, K_duration_days) ELSE PyInt(30)
        /\ Returned(K_levels) =
                IF HasKey(activities, K_levels)
                THEN Lookup(activities, K_levels) ELSE PyList(<<>>)
        /\ ( /\ HasKey(structure, K_duration_days) =>
                    Lookup(structure, K_duration_days) \in Durations
             /\ HasKey(activities, K_levels)
             /\ IsList(Lookup(activities, K_levels))
             /\ Lookup(activities, K_levels).a # <<>> ) =>
                /\ Returned(K_duration_days) \in Durations
                /\ IsList(Returned(K_levels))
                /\ Len(Returned(K_levels).a) >= 1

\* C6, its case: all five calls succeeded with well-formed JSON, the
\* structure chose 21 days, the activities hold a level, and the returned
\* document has 21 days and that level.
C6_Witness ==
    /\ AllWellFormedAndDone
    /\ structure = V_structure
    /\ activities = V_activities
    /\ Returned(K_duration_days) = PyInt(21)
    /\ Len(Returned(K_levels).a) = 1

\* A prompt sent to the model client and the text it returned for it.
Exchange(prompt, response) == [prompt |-> prompt, response |-> response]

\* The text the model client returns when the remote endpoint does o.
ClientText(o) == IF o.ok THEN Strip(o.text) ELSE <<>>

\* The calls a function called on its own made are those the remote endpoint
\* answered, each with the text the model client returned.
CallsAnswered ==
    /\ Len(ret.result.calls) = Len(ret.os)
    /\ \A i \in 1..Len(ret.os) :
            ret.result.calls[i].response = ClientText(ret.os[i])

\* The trace of the one-call trace variants is the one exchange made.
OneCallTraces ==
    /\ ret.op \in {"extract_user_data_trace", "identify_topics_trace"} =>
            /\ CallsAnswered
            /\ ret.result.calls =
                    <<Exchange(ret.result.value[2], ret.result.value[3])>>
    /\ ret.op = "classify_persona_trace" =>
            /\ CallsAnswered
            /\ ret.result.calls =
                    <<Exchange(ret.result.value[3], ret.result.value[4])>>

\* plan_roadmap_trace has returned; topics was omitted, or was supplied.
PlanTraceReturned(supplied) ==
    /\ ret.op = "plan_roadmap_trace"
    /\ ~ret.result.raised
    /\ (ret.args[3] # PyNone) = supplied

\* C7, as the specification has it: every trace variant returns, for each of
\* its stages, the very prompt sent to the model client and the very text the
\* client returned for it, plan_roadmap_trace doing so with topics omitted
\* and with topics supplied.
C7_TraceIsTheExchanges ==
    /\ OneCallTraces
    /\ (PlanTraceReturned(TRUE) \/ PlanTraceReturned(FALSE)) =>
            /\ CallsAnswered
            /\ ret.result.calls =
                 << Exchange(ret.result.value[2].topics,
                             ret.result.value[3].topics),
                    Exchange(ret.result.value[2].structure,
                             ret.result.value[3].structure),
                    Exchange(ret.result.value[2].activities,
                             ret.result.value[3].activities) >>

\* C7, amended: every trace variant returns, for each stage it calls the
\* model client for, the very prompt sent and the very text the client
\* returned: the one-call variants, and plan_roadmap_trace for its three
\* stages with topics omitted.  With topics supplied plan_roadmap_trace makes
\* no call for the topics: this holds of its structure and activities stages,
\* and its topics entry holds the topics prompt, sent to nobody, and the
\* supplied topics dumped as JSON ("[]" when they are empty) in place of a
\* response.
C7_TraceIsTheExchangesMade ==
    /\ OneCallTraces
    /\ PlanTraceReturned(FALSE) =>
            /\ CallsAnswered
            /\ ret.result.calls =
                 << Exchange(ret.result.value[2].topics,
                             ret.result.value[3].topics),
                    Exchange(ret.result.value[2].structure,
                             ret.result.value[3].structure),
                    Exchange(ret.result.value[2].activities,
                             ret.result.value[3].activities) >>
    /\ PlanTraceReturned(TRUE) =>
            /\ CallsAnswered
            /\ ret.result.calls =
                 << Exchange(ret.result.value[2].structure,
                             ret.result.value[3].structure),
                    Exchange(ret.result.value[2].activities,
                             ret.result.value[3].activities) >>
            /\ ret.result.value[2].topics.template = "think"
            /\ \A i \in 1..Len(ret.result.calls) :
                    ret.result.calls[i].prompt.template # "think"
            /\ ret.result.value[3].topics =
                    IF ret.args[3] = EmptyList THEN <<"[", "]">>
                    ELSE json_dumps(ret.args[3])

\* C7, its case: plan_roadmap_trace has returned with topics supplied, after
\* two calls, the structure one failed, with the supplied topics as its
\* topics response.
C7_Witness ==
    /\ PlanTraceReturned(TRUE)
    /\ ret.args[3] = V_topics
    /\ Len(ret.result.calls) = 2
    /\ ret.os[1] = Failure
    /\ ret.result.value[3].topics = json_dumps(V_topics)
    /\ ret.result.value[3].structure = <<>>

\* C8: for the same arguments and the same responses a trace variant sends
\* the prompts its plain counterpart sends and returns the parsed value it
\* returns, and raises where it raises: extract_user_data_trace,
\* classify_persona_trace, identify_topics_trace, and plan_roadmap_trace with
\* topics omitted.
C8_TraceAgreesWithPlain ==
    /\ ret.op = "extract_user_data_trace" =>
            /\ extract_user_data(ret.args[1], ret.args[2], ret.args[3],
                                 ret.os[1]).value = ret.result.value[1]
            /\ extract_user_data(ret.args[1], ret.args[2], ret.args[3],
                                 ret.os[1]).calls = ret.result.calls
    /\ ret.op = "classify_persona_trace" =>
            /\ classify_persona(ret.args[1], ret.os[1]).value
                    = SubSeq(ret.result.value, 1, 2)
            /\ classify_persona(ret.args[1], ret.os[1]).calls
                    = ret.result.calls
    /\ ret.op = "identify_topics_trace" =>
            /\ identify_topics(ret.args[1], ret.os[1]).value
                    = ret.result.value[1]
            /\ identify_topics(ret.args[1], ret.os[1]).calls
                    = ret.result.calls
    /\ (ret.op = "plan_roadmap_trace" /\ ret.args[3] = PyNone) =>
            /\ plan_roadmap(ret.args[1], ret.args[2], ret.os).raised
                    = ret.result.raised
            /\ plan_roadmap(ret.args[1], ret.args[2], ret.os).calls
                    = ret.result.calls
            /\ ~ret.result.raised =>
                    plan_roadmap(ret.args[1], ret.args[2], ret.os).value
                        = ret.result.value[1]

\* C8, its case: plan_roadmap_trace has returned with topics omitted, after a
\* topics response that is not JSON, a failed structure call and activities
\* of one level, and its document holds that level.
C8_Witness ==
    /\ PlanTraceReturned(FALSE)
    /\ ret.args[1] = V_profile
    /\ ~ret.os[1].json /\ ret.os[1].ok
    /\ ret.os[2] = Failure
    /\ ret.os[3].value = V_activities
    /\ Lookup(Lookup(ret.result.value[1], K_roadmap), K_levels)
            = Lookup(V_activities, K_levels)

\* C9: without the PDF backend generate_pdf returns '' and raises nothing and
\* writes no file, and generate_roadmap asked for a PDF returns None as the
\* path, with the document and the table.
C9_NoBackendNoPdf ==
    ~REPORTLAB_AVAILABLE =>
        /\ files = {}
        /\ raised_at # "generate_pdf"
        /\ ret.op = "generate_pdf" =>
                /\ ~ret.result.raised
                /\ ret.result.value = EmptyStr
                /\ ~ret.result.saved
        /\ (pc = "done" /\ args.generate_pdf) =>
                /\ pdf_path = PyNone
                /\ IsDict(roadmap_data)
                /\ IsStr(roadmap_table)

\* C9, its case: without the PDF backend generate_roadmap, asked for a PDF,
\* has returned a document of one level, and generate_pdf has been called on
\* that document.
C9_Witness ==
    /\ ~REPORTLAB_AVAILABLE
    /\ pc = "done"
    /\ args.generate_pdf
    /\ activities = V_activities
    /\ ret.op = "generate_pdf"
    /\ ret.args[1] = roadmap_data

\* The calls made when generate_roadmap is at pc.
CallsAt(where) ==
    CASE where \in {"idle", "extract"} -> 0
      [] where = "classify" -> 1
      [] where = "think" -> 2
      [] where = "plan" -> 3
      [] where = "activities" -> 4
      [] OTHER -> StageCount

\* C10: generate_roadmap calls the model client five times, for the
\* extraction, the classification, the topics, the structure and the
\* activities in this order, each call after the stage before it has its
\* result and with that result in its prompt; no response, failed or
\* unparsable, is asked for again or makes a later call be left out; and
\* format_table runs after the activities stage.
C10_FiveCallsInOrder ==
    /\ Len(calls) = CallsAt(pc)
    /\ Len(remote) = Len(calls)
    /\ \A i \in 1..Len(calls) : calls[i].prompt.template = StageOrder[i]
    /\ Len(calls) >= 2 =>
            /\ user_data # Unbound
            /\ calls[2].prompt.embeds = <<json_dumps(user_data)>>
    /\ Len(calls) >= 3 =>
            /\ persona # Unbound
            /\ calls[3].prompt.embeds =
                    <<json_dumps(user_data), py_str(persona)>>
    /\ Len(calls) >= 4 =>
            /\ topics # Unbound
            /\ calls[4].prompt.embeds = <<json_dumps(topics)>>
    /\ Len(calls) >= 5 =>
            /\ structure # Unbound
            /\ calls[5].prompt.embeds =
                    <<json_dumps(user_data), py_str(persona),
                      json_dumps(structure)>>
    /\ roadmap_table # Unbound =>
            /\ activities # Unbound
            /\ Len(calls) = StageCount

\* C10, its case: generate_roadmap has returned after five calls, the first
\* failed, the fourth answered with a text that is not JSON, the fifth with
\* activities.
C10_Witness ==
    /\ pc = "done"
    /\ Len(calls) = StageCount
    /\ remote[1] = Failure
    /\ remote[3].json
    /\ remote[4] = TextReply(T_sorry)
    /\ remote[5].value = V_activities
    /\ roadmap_table # Unbound

\* The templates of the prompts a function called on its own sent, in order.
TemplatesSent == [i \in 1..Len(ret.result.calls) |->
                    ret.result.calls[i].prompt.template]

\* C11: plan_roadmap_trace given topics, an empty list or not, calls the model
\* client twice, for the structure and then for the activities, never for
\* the topics, and its structure prompt holds the given topics as
\* json.dumps gives them; with topics omitted it calls the model client
\* three times.
C11_GivenTopicsSaveACall ==
    ret.op = "plan_roadmap_trace" =>
        /\ ret.args[3] # PyNone =>
                /\ TemplatesSent = <<"plan", "activities">>
                /\ Len(ret.os) = 2
                /\ ret.result.calls[1].prompt.embeds =
                        <<json_dumps(ret.args[3])>>
        /\ ret.args[3] = PyNone =>
                /\ TemplatesSent = <<"think", "plan", "activities">>
                /\ Len(ret.os) = 3

\* json.dumps(topics, indent=2) of the list of one topic.
TopicsDumped ==
    <<"[", "\n", " ", " ", "{", "\n", " ", " ", " ", " ", "\"", "t", "o", "p",
    "i", "c", "\"", ":", " ", "\"", "r", "a", "g", "\"", ",", "\n", " ", " ",
    " ", " ", "\"", "j", "u", "s", "t", "i", "f", "i", "c", "a", "t", "i",
    "o", "n", "\"", ":", " ", "\"", "c", "o", "r", "e", "\"", "\n", " ", " ",
    "}", "\n", "]">>

\* C11, its case: plan_roadmap_trace was given a list of one topic and has
\* returned after two calls, the structure prompt holding that list.
C11_Witness ==
    /\ ret.op = "plan_roadmap_trace"
    /\ ret.args[3] = V_topics
    /\ ~ret.result.raised
    /\ Len(ret.result.calls) = 2
    /\ ret.result.calls[1].prompt = Prompt("plan", <<TopicsDumped>>)

\* C12: generate_pdf draws no line at a y below the threshold of 80, so none
\* below 0, the bottom of the page, whatever the levels, the topics and the
\* lines each text is cut into: y is back at the top margin before such a
\* line would be drawn.
C12_NoLineBelowThreshold ==
    pdf.at # "off" => pdf.lowest >= PageBreakBelow

\* The table of a document of one level with one topic, neither with a
\* field, thirty days and no hours, for the persona ''.
BareLevelTable ==
    <<"\n", "=", "=", "=", "=", "=", "=", "=", "=", "=", "=", "=", "=", "=",
    "=", "=", "=", "=", "=", "=", "=", "=", "=", "=", "=", "=", "=", "=", "=",
    "=", "=", "=", "=", "=", "=", "=", "=", "=", "=", "=", "=", "=", "=", "=",
    "=", "=", "=", "=", "=", "=", "=", "=", "=", "=", "=", "=", "=", "=", "=",
    "=", "=", "\n", "P", "e", "r", "s", "o", "n", "a", "l", "i", "z", "e",
    "d", " ", "G", "e", "n", "A", "I", " ", "R", "o", "a", "d", "m", "a", "p",
    " ", "f", "o", "r", " ", "\n", "D", "u", "r", "a", "t", "i", "o", "n",
    ":", " ", "3", "0", " ", "d", "a", "y", "s", " ", "|", " ", "T", "o", "t",
    "a", "l", " ", "H", "o", "u", "r", "s", ":", " ", "0", "\n", "=", "=",
    "=", "=", "=", "=", "=", "=", "=", "=", "=", "=", "=", "=", "=", "=", "=",
    "=", "=", "=", "=", "=", "=", "=", "=", "=", "=", "=", "=", "=", "=", "=",
    "=", "=", "=", "=", "=", "=", "=", "=", "=", "=", "=", "=", "=", "=", "=",
    "=", "=", "=", "=", "=", "=", "=", "=", "=", "=", "=", "=", "=", "\n",
    "\n", "L", "e", "v", "e", "l", " ", "?", ":", " ", " ", "(", "E", "s",
    "t", ".", " ", "0", " ", "h", "r", "s", ")", "\n", "-", "-", "-", "-",
    "-", "-", "-", "-", "-", "-", "-", "-", "-", "-", "-", "-", "-", "-", "-",
    "-", "-", "-", "-", "-", "-", "-", "-", "-", "-", "-", "-", "-", "-", "-",
    "-", "-", "-", "-", "-", "-", "-", "-", "-", "-", "-", "-", "-", "-", "-",
    "-", "-", "-", "-", "-", "-", "-", "-", "-", "-", "-", "\n", "-", " ",
    "T", "o", "p", "i", "c", ":", " ", "\n", " ", " ", "A", "c", "t", "i",
    "v", "i", "t", "y", ":", " ", "\n", " ", " ", "E", "s", "t", ".", " ",
    "H", "o", "u", "r", "s", ":", " ", "0", "\n", " ", " ", "J", "u", "s",
    "t", "i", "f", "i", "c", "a", "t", "i", "o", "n", ":", " ", "\n", "\n",
    "=", "=", "=", "=", "=", "=", "=", "=", "=", "=", "=", "=", "=", "=", "=",
    "=", "=", "=", "=", "=", "=", "=", "=", "=", "=", "=", "=", "=", "=", "=",
    "=", "=", "=", "=", "=", "=", "=", "=", "=", "=", "=", "=", "=", "=", "=",
    "=", "=", "=", "=", "=", "=", "=", "=", "=", "=", "=", "=", "=", "=", "=",
    "\n">>

\* C13: format_table raises on no document generate_roadmap gives it,
\* whatever well-formed JSON the activities stage took, and renders a missing
\* field as its default: '?' for the level, '' for a text, 0 for a number.
C13_FormatNeverRaises ==
    /\ raised_at # "format_table"
    /\ (roadmap_table # Unbound /\ persona = EmptyStr
            /\ structure = EmptyDict /\ activities = V_activities_bare) =>
            roadmap_table = PyStr(BareLevelTable)

\* The value of key k in the object o, or otherwise when o has no such key.
ValueOr(o, k, otherwise) ==
    IF \E i \in 1..Len(o.o) : o.o[i][1] = k
    THEN o.o[CHOOSE i \in 1..Len(o.o) :
                /\ o.o[i][1] = k
                /\ \A j \in (i + 1)..Len(o.o) : o.o[j][1] # k][2]
    ELSE otherwise

\* In the document doc the duration is that of the parsed structure s, 30
\* when it has none, and the total and the levels are those of the parsed
\* activities a, 0 and [] when they have none; levels of the structure are
\* not in the document unless the activities hold the same.
FramedBy(doc, s, a) ==
    LET r == ValueOr(doc, K_roadmap, PyNone)
    IN  /\ ValueOr(r, K_duration_days, PyNone)
                = ValueOr(s, K_duration_days, PyInt(30))
        /\ ValueOr(r, K_total_estimated_hours, PyNone)
                = ValueOr(a, K_total_estimated_hours, PyInt(0))
        /\ ValueOr(r, K_levels, PyNone) = ValueOr(a, K_levels, PyList(<<>>))
        /\ ValueOr(s, K_levels, PyNone) # ValueOr(a, K_levels, PyList(<<>>))
            => ValueOr(r, K_levels, PyNone) # ValueOr(s, K_levels, PyNone)

\* The roadmap part of the document doc, at key k.
InRoadmap(doc, k) == ValueOr(ValueOr(doc, K_roadmap, PyNone), k, PyNone)

\* C14: in the assembled document duration_days comes of the parsed structure
\* alone, and total_estimated_hours and levels of the parsed activities
\* alone.  With the topics or the structure stage failed the levels and the
\* total of the activities response stand, and only duration_days is 30 for
\* a failed structure stage; with the activities stage failed the total is 0
\* and there are no levels, and the duration of the structure stands; the
\* levels of the structure are never in the document.  This holds of
\* plan_roadmap in generate_roadmap and of plan_roadmap_trace.
C14_DocumentFramedByStages ==
    /\ roadmap_data # Unbound =>
            /\ FramedBy(roadmap_data, structure, activities)
            /\ FramedBy(roadmap_data, ParseStructure(calls[4].response),
                        ParseActivities(calls[5].response))
            /\ ~remote[4].json =>
                    InRoadmap(roadmap_data, K_duration_days) = PyInt(30)
            /\ ~remote[5].json =>
                    /\ InRoadmap(roadmap_data, K_total_estimated_hours)
                            = PyInt(0)
                    /\ InRoadmap(roadmap_data, K_levels) = PyList(<<>>)
    /\ (ret.op = "plan_roadmap_trace" /\ ~ret.result.raised) =>
            /\ FramedBy(ret.result.value[1],
                        ParseStructure(ret.result.value[3].structure),
                        ParseActivities(ret.result.value[3].activities))
            /\ ~ret.os[Len(ret.os) - 1].json =>
                    InRoadmap(ret.result.value[1], K_duration_days) = PyInt(30)
            /\ ~ret.os[Len(ret.os)].json =>
                    /\ InRoadmap(ret.result.value[1], K_total_estimated_hours)
                            = PyInt(0)
                    /\ InRoadmap(ret.result.value[1], K_levels) = PyList(<<>>)

\* C14, its case: generate_roadmap has its document after failed topics and
\* structure calls and an activities response of one level and three hours:
\* the document has that level, three hours and thirty days.
C14_Witness ==
    /\ roadmap_data # Unbound
    /\ remote[3] = Failure
    /\ remote[4] = Failure
    /\ remote[5].value = V_activities
    /\ InRoadmap(roadmap_data, K_levels) = ValueOr(V_activities, K_levels, PyNone)
    /\ InRoadmap(roadmap_data, K_total_estimated_hours) = PyInt(3)
    /\ InRoadmap(roadmap_data, K_duration_days) = PyInt(30)

====
